---- MODULE Spec2Model ----
(***************************************************************************)
(* Sales-Analytics-System: the transaction pipeline                        *)
(*   parse -> validate/filter -> fetch products -> map -> enrich ->        *)
(*   save -> report                                                        *)
(* modelled from the Python sources.                                       *)
(*                                                                         *)
(* Strings are sequences of one-character strings (so that startswith,     *)
(* strip and slicing are computed), None is the one-element sequence       *)
(* <<"None">>, a Python float is a binary floating-point number with PREC  *)
(* bits of significand (round to nearest, ties to even), and a dict that   *)
(* is iterated is a sequence of entries in insertion order.                *)
(***************************************************************************)
EXTENDS Integers, Sequences, FiniteSets, TLC

VARIABLES
    pc,                   \* position of the script being run
    transactions,         \* the list handed to the function under analysis
    args,                 \* the other arguments of the call
    ret,                  \* the value the call returned
    sales_file,           \* main: the sales data file (the environment's choice)
    raw_transactions,     \* main: result of parse_sales_data_raw
    filters,              \* main: dict returned by get_filter_criteria
    valid_transactions,   \* main: first result of validate_sales_transactions
    invalid_count,        \* main: second result of validate_sales_transactions
    response,             \* what requests.get met (the environment's choice)
    api_products,         \* main: result of fetch_all_products
    product_mapping,      \* main: result of create_product_mapping
    enriched_transactions,\* main: result of enrich_with_api_mapping
    files,                \* which output files have been written
    steps,                \* the workflow steps main has started, in order
    failures,             \* the failures the run has met
    result,               \* main's return value
    exit_code             \* the process exit status

fvars == <<transactions, args, ret>>
mvars == <<sales_file, raw_transactions, filters, valid_transactions,
           invalid_count, response, api_products, product_mapping,
           enriched_transactions, files, steps, failures, result, exit_code>>
vars == <<pc, transactions, args, ret, sales_file, raw_transactions, filters,
          valid_transactions, invalid_count, response, api_products,
          product_mapping, enriched_transactions, files, steps, failures,
          result, exit_code>>

(***************************************************************************)
(* Bounds                                                                  *)
(***************************************************************************)
MaxTx == 3

PREC == 3

(***************************************************************************)
(* Python values                                                           *)
(***************************************************************************)
None == <<"None">>

Some(x) == [v |-> x]

\* None where the other values are numbers
Nothing == [none |-> TRUE]

Str(c1, c2) == <<c1, c2>>

StartsWith(s, c) == Len(s) > 0 /\ s[1] = c

IsSpace(c) == c \in {" ", "\t", "\n"}

RECURSIVE LStrip(_)
LStrip(s) == IF s # <<>> /\ IsSpace(Head(s)) THEN LStrip(Tail(s)) ELSE s

RECURSIVE RStrip(_)
RStrip(s) ==
    IF s # <<>> /\ IsSpace(s[Len(s)]) THEN RStrip(SubSeq(s, 1, Len(s) - 1))
    ELSE s

Strip(s) == RStrip(LStrip(s))

RECURSIVE Pow2(_)
Pow2(k) == IF k = 0 THEN 1 ELSE 2 * Pow2(k - 1)

RECURSIVE Ulp(_, _)
Ulp(n, u) == IF n < u * Pow2(PREC) THEN u ELSE Ulp(n, 2 * u)

RoundNat(n) ==
    LET u == Ulp(n, 1)
        q == n \div u
        r == n % u
    IN  IF 2 * r < u THEN q * u
        ELSE IF 2 * r > u THEN (q + 1) * u
        ELSE IF q % 2 = 0 THEN q * u ELSE (q + 1) * u

Round(x) == IF x < 0 THEN 0 - RoundNat(0 - x) ELSE RoundNat(x)

FAdd(a, b) == Round(a + b)

FMul(a, b) == Round(a * b)

Amount(t) == FMul(t.Quantity, t.UnitPrice)

(***************************************************************************)
(* validate_and_filter.py                                                  *)
(***************************************************************************)
required_fields ==
    {"TransactionID", "Date", "ProductID", "ProductName",
     "Quantity", "UnitPrice", "CustomerID", "Region"}

IsValidMissingCustomerCheck(trans) ==
    /\ required_fields \subseteq DOMAIN trans
    /\ StartsWith(trans.TransactionID, "T")
    /\ StartsWith(trans.ProductID, "P")
    /\ ~(trans.Quantity <= 0)
    /\ ~(trans.UnitPrice <= 0)

IsValid(trans) ==
    IF ~(required_fields \subseteq DOMAIN trans) THEN FALSE
    ELSE IF ~StartsWith(trans.TransactionID, "T") THEN FALSE
    ELSE IF ~StartsWith(trans.ProductID, "P") THEN FALSE
    ELSE IF ~StartsWith(trans.CustomerID, "C") THEN FALSE
    ELSE IF trans.Quantity <= 0 THEN FALSE
    ELSE IF trans.UnitPrice <= 0 THEN FALSE
    ELSE TRUE

ValidationStepUncounted(acc, trans) ==
    IF IsValid(trans)
    THEN [acc EXCEPT !.valid_transactions = Append(@, trans),
                     !.regions_found = @ \cup {trans.Region},
                     !.amounts = Append(@, Amount(trans))]
    ELSE acc

ValidationStep(acc, trans) ==
    IF IsValid(trans)
    THEN [acc EXCEPT !.valid_transactions = Append(@, trans),
                     !.regions_found = @ \cup {trans.Region},
                     !.amounts = Append(@, Amount(trans))]
    ELSE [acc EXCEPT !.invalid_count = @ + 1]

RECURSIVE ValidationLoop(_, _)
ValidationLoop(acc, ts) ==
    IF ts = <<>> THEN acc
    ELSE ValidationLoop(ValidationStep(acc, Head(ts)), Tail(ts))

ValidationPass(ts) ==
    ValidationLoop([valid_transactions |-> <<>>, invalid_count |-> 0,
                    regions_found |-> {}, amounts |-> <<>>],
                   ts)

FilterByRegionAppending(ts, region) ==
    ts \o SelectSeq(ts, LAMBDA t : t.Region = Strip(region))

FilterByRegion(ts, region) ==
    IF region # None
    THEN SelectSeq(ts, LAMBDA t : t.Region = Strip(region))
    ELSE ts

FilterByAmount(ts, min_amount, max_amount) ==
    IF min_amount # Nothing \/ max_amount # Nothing
    THEN SelectSeq(ts, LAMBDA t :
            /\ (min_amount = Nothing \/ Amount(t) >= min_amount.v)
            /\ (max_amount = Nothing \/ Amount(t) <= max_amount.v))
    ELSE ts

FilteredCount(before, after) == Len(before) - Len(after)

validate_and_filter(ts, region, min_amount, max_amount) ==
    LET pass == ValidationPass(ts)
        valid == pass.valid_transactions
        byRegion == FilterByRegion(valid, region)
        byAmount == FilterByAmount(byRegion, min_amount, max_amount)
    IN  [list |-> byAmount,
         invalid_count |-> pass.invalid_count,
         summary |->
            [total_input |-> Len(ts),
             invalid |-> pass.invalid_count,
             valid |-> Len(valid),
             filtered_by_region |-> FilteredCount(valid, byRegion),
             filtered_by_amount |-> FilteredCount(byRegion, byAmount),
             final_count |-> Len(byAmount)]]

(***************************************************************************)
(* Inputs of the analysis functions: records as parse_transactions builds  *)
(* them (eight string/int/float fields), and one dict lacking a field.     *)
(***************************************************************************)
Tx(tid, pid, q, p, cid, region) ==
    [TransactionID |-> tid, Date |-> Str("0", "1"), ProductID |-> pid,
     ProductName |-> <<"L">>, Quantity |-> q, UnitPrice |-> p,
     CustomerID |-> cid, Region |-> region]

North == <<"N">>

South == <<"S">>

NoRegionField ==
    [TransactionID |-> Str("T", "9"), Date |-> Str("0", "1"),
     ProductID |-> Str("P", "1"), ProductName |-> <<"L">>,
     Quantity |-> 1, UnitPrice |-> 1, CustomerID |-> Str("C", "1")]

FilterTx ==
    { Tx(Str("T", "1"), Str("P", "1"), 1, 1, Str("C", "1"), North),
      Tx(Str("T", "2"), Str("P", "2"), 2, 8, Str("C", "2"), North),
      Tx(Str("T", "3"), Str("P", "1"), 1, 8, Str("C", "1"), South),
      Tx(Str("X", "4"), Str("P", "1"), 1, 1, Str("C", "1"), North),
      Tx(Str("T", "5"), Str("Q", "1"), 1, 1, Str("C", "1"), North),
      Tx(Str("T", "6"), Str("P", "1"), 1, 1, <<>>, North),
      Tx(Str("T", "7"), Str("P", "1"), 0, 8, Str("C", "1"), South),
      Tx(Str("T", "8"), Str("P", "1"), 2, 0, Str("C", "1"), South),
      NoRegionField }

RegionArgs == {None, North, <<" ", "N", " ">>, <<"W">>}

MinArgs == {Nothing, Some(2), Some(8)}

MaxArgs == {Nothing, Some(8)}

SeqsUpTo(S, n) == UNION {[1..k -> S] : k \in 0..n}

NoArgs == [none |-> TRUE]

NoRet == [none |-> TRUE]

MainIdle ==
    /\ sales_file = [none |-> TRUE]
    /\ raw_transactions = <<>>
    /\ filters = [none |-> TRUE]
    /\ valid_transactions = <<>>
    /\ invalid_count = 0
    /\ response = [none |-> TRUE]
    /\ api_products = <<>>
    /\ product_mapping = <<>>
    /\ enriched_transactions = <<>>
    /\ files = {}
    /\ steps = <<>>
    /\ failures = {}
    /\ result = "running"
    /\ exit_code = Nothing

InitFilter ==
    /\ pc = "input"
    /\ transactions \in SeqsUpTo(FilterTx, MaxTx)
    /\ args = NoArgs
    /\ ret = NoRet
    /\ MainIdle

CallValidateAndFilter ==
    /\ pc = "input"
    /\ \E region \in RegionArgs, min_amount \in MinArgs, max_amount \in MaxArgs :
          /\ args' = [region |-> region, min_amount |-> min_amount,
                      max_amount |-> max_amount]
          /\ ret' = validate_and_filter(transactions, region, min_amount,
                                        max_amount)
    /\ pc' = "vf_returned"
    /\ UNCHANGED <<transactions, mvars>>

NextFilter == CallValidateAndFilter

SpecFilter == InitFilter /\ [][NextFilter]_vars

(***************************************************************************)
(* calculate_total_revenue.py, region_wise_sales.py                        *)
(* A dict is a sequence of entries [key |-> ..., ...] in insertion order.  *)
(***************************************************************************)
KeyIndex(entries, k) ==
    IF \E i \in 1..Len(entries) : entries[i].key = k
    THEN CHOOSE i \in 1..Len(entries) : entries[i].key = k
    ELSE 0

RECURSIVE calculate_total_revenue_from(_, _)
calculate_total_revenue_from(total_revenue, ts) ==
    IF ts = <<>> THEN total_revenue
    ELSE calculate_total_revenue_from(FAdd(total_revenue, Amount(Head(ts))),
                                      Tail(ts))

calculate_total_revenue(ts) == calculate_total_revenue_from(0, ts)

RegionStepOverwriting(acc, transaction) ==
    LET region == transaction.Region
        sales_amount == Amount(transaction)
        stats == IF KeyIndex(acc.region_stats, region) = 0
                 THEN Append(acc.region_stats,
                             [key |-> region, total_sales |-> 0,
                              transaction_count |-> 0])
                 ELSE acc.region_stats
        i == KeyIndex(stats, region)
    IN  [total_revenue |-> FAdd(acc.total_revenue, sales_amount),
         region_stats |->
            [stats EXCEPT ![i].total_sales = sales_amount,
                          ![i].transaction_count = @ + 1]]

RegionStep(acc, transaction) ==
    LET region == transaction.Region
        sales_amount == Amount(transaction)
        stats == IF KeyIndex(acc.region_stats, region) = 0
                 THEN Append(acc.region_stats,
                             [key |-> region, total_sales |-> 0,
                              transaction_count |-> 0])
                 ELSE acc.region_stats
        i == KeyIndex(stats, region)
    IN  [total_revenue |-> FAdd(acc.total_revenue, sales_amount),
         region_stats |->
            [stats EXCEPT ![i].total_sales = FAdd(@, sales_amount),
                          ![i].transaction_count = @ + 1]]

RECURSIVE RegionLoop(_, _)
RegionLoop(acc, ts) ==
    IF ts = <<>> THEN acc
    ELSE RegionLoop(RegionStep(acc, Head(ts)), Tail(ts))

\* round((total_sales / total_revenue) * 100, 2), in hundredths of a percent
Percentage(total_sales, total_revenue) ==
    LET n == total_sales * 10000
        q == n \div total_revenue
        r == n % total_revenue
    IN  IF 2 * r < total_revenue THEN q
        ELSE IF 2 * r > total_revenue THEN q + 1
        ELSE IF q % 2 = 0 THEN q ELSE q + 1

WithPercentage(region_stats, total_revenue) ==
    [i \in 1..Len(region_stats) |->
        [key |-> region_stats[i].key,
         total_sales |-> region_stats[i].total_sales,
         transaction_count |-> region_stats[i].transaction_count,
         percentage |-> Percentage(region_stats[i].total_sales, total_revenue)]]

\* sorted(..., key=<field>, reverse=True): stable, equal keys keep their order
InsertDescUnstable(sorted, e, field) ==
    LET p == Cardinality({i \in 1..Len(sorted) : sorted[i][field] > e[field]})
    IN  SubSeq(sorted, 1, p) \o <<e>> \o SubSeq(sorted, p + 1, Len(sorted))

InsertDesc(sorted, e, field) ==
    LET p == Cardinality({i \in 1..Len(sorted) : sorted[i][field] >= e[field]})
    IN  SubSeq(sorted, 1, p) \o <<e>> \o SubSeq(sorted, p + 1, Len(sorted))

RECURSIVE SortDescFrom(_, _, _)
SortDescFrom(sorted, entries, field) ==
    IF entries = <<>> THEN sorted
    ELSE SortDescFrom(InsertDesc(sorted, Head(entries), field),
                      Tail(entries), field)

SortDesc(entries, field) == SortDescFrom(<<>>, entries, field)

region_wise_sales(ts) ==
    LET acc == RegionLoop([total_revenue |-> 0, region_stats |-> <<>>], ts)
    IN  IF acc.region_stats # <<>> /\ acc.total_revenue = 0
        THEN [raised |-> "ZeroDivisionError"]
        ELSE [regions |-> SortDesc(WithPercentage(acc.region_stats,
                                                  acc.total_revenue),
                                   "total_sales")]

(***************************************************************************)
(* generate_sales_report.py: calculate_report_metrics                      *)
(***************************************************************************)
Alphabet ==
    <<" ", "0", "1", "2", "3", "4", "5", "6", "7", "8", "9",
      "A", "B", "C", "D", "E", "F", "G", "H", "I", "J", "K", "L", "M",
      "N", "O", "P", "Q", "R", "S", "T", "U", "V", "W", "X", "Y", "Z",
      "a", "b", "c", "d", "e", "f", "g", "h", "i", "j", "k", "l", "m",
      "n", "o", "p", "q", "r", "s", "t", "u", "v", "w", "x", "y", "z">>

Ord(c) == CHOOSE i \in 1..Len(Alphabet) : Alphabet[i] = c

RECURSIVE StrLess(_, _)
StrLess(a, b) ==
    IF b = <<>> THEN FALSE
    ELSE IF a = <<>> THEN TRUE
    ELSE IF Head(a) = Head(b) THEN StrLess(Tail(a), Tail(b))
    ELSE Ord(Head(a)) < Ord(Head(b))

RECURSIVE SortedStrings(_)
SortedStrings(S) ==
    IF S = {} THEN <<>>
    ELSE LET m == CHOOSE x \in S : \A y \in S \ {x} : StrLess(x, y)
         IN  <<m>> \o SortedStrings(S \ {m})

Unknown == <<"U", "n", "k", "n", "o", "w", "n">>

Get(tx, key, default) == IF key \in DOMAIN tx THEN tx[key] ELSE default

OrUnknown(value) == IF value = None \/ value = <<>> THEN Unknown ELSE value

ToFloat(n) == Round(n)

WithKey(entries, k, default) ==
    IF KeyIndex(entries, k) = 0 THEN Append(entries, default) ELSE entries

MetricsStepUncountedCustomer(metrics, tx) ==
    LET qty == ToFloat(Get(tx, "Quantity", 0))
        price == ToFloat(Get(tx, "UnitPrice", 0))
        revenue == FMul(qty, price)
        region == OrUnknown(Get(tx, "Region", Unknown))
        product_id == Get(tx, "ProductID", Unknown)
        product_name == Get(tx, "ProductName", Unknown)
        customer_id == OrUnknown(Get(tx, "CustomerID", Unknown))
        date == OrUnknown(Get(tx, "Date", Unknown))
        regions == WithKey(metrics.regions, region,
                           [key |-> region, revenue |-> 0, count |-> 0,
                            transactions |-> <<>>])
        products == WithKey(metrics.products, product_id,
                            [key |-> product_id, quantity |-> 0,
                             revenue |-> 0, name |-> <<>>])
        customers == WithKey(metrics.customers, customer_id,
                             [key |-> customer_id, spent |-> 0, count |-> 0])
        daily_sales == WithKey(metrics.daily_sales, date,
                               [key |-> date, revenue |-> 0, count |-> 0,
                                customers |-> {}])
        r == KeyIndex(regions, region)
        p == KeyIndex(products, product_id)
        c == KeyIndex(customers, customer_id)
        d == KeyIndex(daily_sales, date)
    IN  [metrics EXCEPT
            !.total_revenue = FAdd(@, revenue),
            !.regions = [regions EXCEPT ![r].revenue = FAdd(@, revenue),
                                        ![r].count = @ + 1,
                                        ![r].transactions = Append(@, revenue)],
            !.products = [products EXCEPT ![p].quantity = FAdd(@, qty),
                                          ![p].revenue = FAdd(@, revenue),
                                          ![p].name = product_name],
            !.customers = [customers EXCEPT ![c].spent = FAdd(@, revenue),
                                            ![c].count = 1],
            !.daily_sales = [daily_sales EXCEPT
                                ![d].revenue = FAdd(@, revenue),
                                ![d].count = @ + 1,
                                ![d].customers = @ \cup {customer_id}],
            !.dates = Append(@, date)]

\* Quantity and UnitPrice are numbers in every record either parser builds,
\* so float() does not raise and the except branch (line 181) is not taken.
MetricsStep(metrics, tx) ==
    LET qty == ToFloat(Get(tx, "Quantity", 0))
        price == ToFloat(Get(tx, "UnitPrice", 0))
        revenue == FMul(qty, price)
        region == OrUnknown(Get(tx, "Region", Unknown))
        product_id == Get(tx, "ProductID", Unknown)
        product_name == Get(tx, "ProductName", Unknown)
        customer_id == OrUnknown(Get(tx, "CustomerID", Unknown))
        date == OrUnknown(Get(tx, "Date", Unknown))
        regions == WithKey(metrics.regions, region,
                           [key |-> region, revenue |-> 0, count |-> 0,
                            transactions |-> <<>>])
        products == WithKey(metrics.products, product_id,
                            [key |-> product_id, quantity |-> 0,
                             revenue |-> 0, name |-> <<>>])
        customers == WithKey(metrics.customers, customer_id,
                             [key |-> customer_id, spent |-> 0, count |-> 0])
        daily_sales == WithKey(metrics.daily_sales, date,
                               [key |-> date, revenue |-> 0, count |-> 0,
                                customers |-> {}])
        r == KeyIndex(regions, region)
        p == KeyIndex(products, product_id)
        c == KeyIndex(customers, customer_id)
        d == KeyIndex(daily_sales, date)
    IN  [metrics EXCEPT
            !.total_revenue = FAdd(@, revenue),
            !.regions = [regions EXCEPT ![r].revenue = FAdd(@, revenue),
                                        ![r].count = @ + 1,
                                        ![r].transactions = Append(@, revenue)],
            !.products = [products EXCEPT ![p].quantity = FAdd(@, qty),
                                          ![p].revenue = FAdd(@, revenue),
                                          ![p].name = product_name],
            !.customers = [customers EXCEPT ![c].spent = FAdd(@, revenue),
                                            ![c].count = @ + 1],
            !.daily_sales = [daily_sales EXCEPT
                                ![d].revenue = FAdd(@, revenue),
                                ![d].count = @ + 1,
                                ![d].customers = @ \cup {customer_id}],
            !.dates = Append(@, date)]

RECURSIVE MetricsLoop(_, _)
MetricsLoop(metrics, ts) ==
    IF ts = <<>> THEN metrics
    ELSE MetricsLoop(MetricsStep(metrics, Head(ts)), Tail(ts))

Range(s) == {s[i] : i \in 1..Len(s)}

calculate_report_metrics(ts, enriched) ==
    LET metrics == MetricsLoop(
            [total_revenue |-> 0, total_transactions |-> Len(ts),
             transactions |-> ts, enriched_transactions |-> enriched,
             regions |-> <<>>, products |-> <<>>, customers |-> <<>>,
             daily_sales |-> <<>>, dates |-> <<>>],
            ts)
    IN  [metrics EXCEPT !.dates = SortedStrings(Range(@))]

(***************************************************************************)
(* top_selling_products.py, low_performing_products.py                     *)
(* A tuple (ProductName, TotalQuantity, TotalRevenue) is a 3-tuple.        *)
(***************************************************************************)
TopProductStep(product_stats, transaction) ==
    LET product_name == transaction.ProductName
        quantity == transaction.Quantity
        revenue == FMul(quantity, transaction.UnitPrice)
        stats == IF KeyIndex(product_stats, product_name) = 0
                 THEN Append(product_stats,
                             [key |-> product_name, total_quantity |-> 0,
                              total_revenue |-> 0, transaction_count |-> 0])
                 ELSE product_stats
        i == KeyIndex(stats, product_name)
    IN  [stats EXCEPT ![i].total_quantity = @ + quantity,
                      ![i].total_revenue = FAdd(@, revenue),
                      ![i].transaction_count = @ + 1]

RECURSIVE TopProductLoop(_, _)
TopProductLoop(product_stats, ts) ==
    IF ts = <<>> THEN product_stats
    ELSE TopProductLoop(TopProductStep(product_stats, Head(ts)), Tail(ts))

ProductTuples(product_stats) ==
    [i \in 1..Len(product_stats) |->
        <<product_stats[i].key, product_stats[i].total_quantity,
          product_stats[i].total_revenue>>]

\* s[:n]: the first n items, or all but the last -n when n is negative
SliceTo(s, n) ==
    LET stop == IF n >= 0 THEN (IF n < Len(s) THEN n ELSE Len(s))
                ELSE (IF Len(s) + n > 0 THEN Len(s) + n ELSE 0)
    IN  SubSeq(s, 1, stop)

\* x[1] of the tuple is its second component
top_selling_products(ts, n) ==
    SliceTo(SortDesc(ProductTuples(TopProductLoop(<<>>, ts)), 2), n)

LowProductStep(product_stats, transaction) ==
    LET product_name == transaction.ProductName
        quantity == transaction.Quantity
        revenue == FMul(quantity, transaction.UnitPrice)
        stats == IF KeyIndex(product_stats, product_name) = 0
                 THEN Append(product_stats,
                             [key |-> product_name, total_quantity |-> 0,
                              total_revenue |-> 0])
                 ELSE product_stats
        i == KeyIndex(stats, product_name)
    IN  [stats EXCEPT ![i].total_quantity = @ + quantity,
                      ![i].total_revenue = FAdd(@, revenue)]

RECURSIVE LowProductLoop(_, _)
LowProductLoop(product_stats, ts) ==
    IF ts = <<>> THEN product_stats
    ELSE LowProductLoop(LowProductStep(product_stats, Head(ts)), Tail(ts))

\* list.sort(key=<field>): stable, equal keys keep their order
InsertAsc(sorted, e, field) ==
    LET p == Cardinality({i \in 1..Len(sorted) : sorted[i][field] <= e[field]})
    IN  SubSeq(sorted, 1, p) \o <<e>> \o SubSeq(sorted, p + 1, Len(sorted))

RECURSIVE SortAscFrom(_, _, _)
SortAscFrom(sorted, entries, field) ==
    IF entries = <<>> THEN sorted
    ELSE SortAscFrom(InsertAsc(sorted, Head(entries), field),
                     Tail(entries), field)

SortAsc(entries, field) == SortAscFrom(<<>>, entries, field)

low_performing_products_inclusive(ts, threshold) ==
    SortAsc(SelectSeq(ProductTuples(LowProductLoop(<<>>, ts)),
                      LAMBDA p : p[2] <= threshold), 2)

low_performing_products(ts, threshold) ==
    SortAsc(SelectSeq(ProductTuples(LowProductLoop(<<>>, ts)),
                      LAMBDA p : p[2] < threshold), 2)

(***************************************************************************)
(* customer_analysis.py, daily_sales_trend.py                              *)
(***************************************************************************)
CustomerStepOverwriting(customer_stats, transaction) ==
    LET customer_id == transaction.CustomerID
        product_name == transaction.ProductName
        amount_spent == FMul(transaction.Quantity, transaction.UnitPrice)
        stats == IF KeyIndex(customer_stats, customer_id) = 0
                 THEN Append(customer_stats,
                             [key |-> customer_id, total_spent |-> 0,
                              purchase_count |-> 0, products_bought |-> {}])
                 ELSE customer_stats
        i == KeyIndex(stats, customer_id)
    IN  [stats EXCEPT ![i].total_spent = amount_spent,
                      ![i].purchase_count = @ + 1,
                      ![i].products_bought = @ \cup {product_name}]

CustomerStep(customer_stats, transaction) ==
    LET customer_id == transaction.CustomerID
        product_name == transaction.ProductName
        amount_spent == FMul(transaction.Quantity, transaction.UnitPrice)
        stats == IF KeyIndex(customer_stats, customer_id) = 0
                 THEN Append(customer_stats,
                             [key |-> customer_id, total_spent |-> 0,
                              purchase_count |-> 0, products_bought |-> {}])
                 ELSE customer_stats
        i == KeyIndex(stats, customer_id)
    IN  [stats EXCEPT ![i].total_spent = FAdd(@, amount_spent),
                      ![i].purchase_count = @ + 1,
                      ![i].products_bought = @ \cup {product_name}]

RECURSIVE CustomerLoop(_, _)
CustomerLoop(customer_stats, ts) ==
    IF ts = <<>> THEN customer_stats
    ELSE CustomerLoop(CustomerStep(customer_stats, Head(ts)), Tail(ts))

\* round(total_spent / purchase_count, 2), in hundredths
AvgOrderValue(total_spent, purchase_count) ==
    LET n == total_spent * 100
        q == n \div purchase_count
        r == n % purchase_count
    IN  IF 2 * r < purchase_count THEN q
        ELSE IF 2 * r > purchase_count THEN q + 1
        ELSE IF q % 2 = 0 THEN q ELSE q + 1

\* sorted() compares the items: None against a str raises TypeError
SortRaises(S) == None \in S /\ S # {None}

SortedItems(S) == IF S = {None} THEN <<None>> ELSE SortedStrings(S)

customer_analysis(ts) ==
    LET customer_stats == CustomerLoop(<<>>, ts)
    IN  IF \E i \in 1..Len(customer_stats) :
              SortRaises(customer_stats[i].products_bought)
        THEN [raised |-> "TypeError"]
        ELSE [customers |->
                SortDesc([i \in 1..Len(customer_stats) |->
                            [key |-> customer_stats[i].key,
                             total_spent |-> customer_stats[i].total_spent,
                             purchase_count |->
                                customer_stats[i].purchase_count,
                             avg_order_value |->
                                AvgOrderValue(customer_stats[i].total_spent,
                                              customer_stats[i].purchase_count),
                             products_bought |->
                                SortedItems(customer_stats[i].products_bought)]],
                         "total_spent")]

DailyStepFirstCustomerOnly(daily_stats, transaction) ==
    LET date == transaction.Date
        customer_id == transaction.CustomerID
        revenue == FMul(transaction.Quantity, transaction.UnitPrice)
        stats == IF KeyIndex(daily_stats, date) = 0
                 THEN Append(daily_stats,
                             [key |-> date, revenue |-> 0,
                              transaction_count |-> 0,
                              unique_customers |-> {}])
                 ELSE daily_stats
        i == KeyIndex(stats, date)
    IN  [stats EXCEPT ![i].revenue = FAdd(@, revenue),
                      ![i].transaction_count = @ + 1,
                      ![i].unique_customers =
                          IF @ = {} THEN {customer_id} ELSE @]

DailyStep(daily_stats, transaction) ==
    LET date == transaction.Date
        customer_id == transaction.CustomerID
        revenue == FMul(transaction.Quantity, transaction.UnitPrice)
        stats == IF KeyIndex(daily_stats, date) = 0
                 THEN Append(daily_stats,
                             [key |-> date, revenue |-> 0,
                              transaction_count |-> 0,
                              unique_customers |-> {}])
                 ELSE daily_stats
        i == KeyIndex(stats, date)
    IN  [stats EXCEPT ![i].revenue = FAdd(@, revenue),
                      ![i].transaction_count = @ + 1,
                      ![i].unique_customers = @ \cup {customer_id}]

RECURSIVE DailyLoop(_, _)
DailyLoop(daily_stats, ts) ==
    IF ts = <<>> THEN daily_stats
    ELSE DailyLoop(DailyStep(daily_stats, Head(ts)), Tail(ts))

\* sorted(daily_stats.items()): the keys are distinct, so they decide
daily_sales_trend(ts) ==
    LET daily_stats == DailyLoop(<<>>, ts)
        dates == {daily_stats[i].key : i \in 1..Len(daily_stats)}
        order == SortedItems(dates)
    IN  IF SortRaises(dates) THEN [raised |-> "TypeError"]
        ELSE [days |->
                [k \in 1..Len(order) |->
                    LET s == daily_stats[KeyIndex(daily_stats, order[k])]
                    IN  [key |-> s.key, revenue |-> s.revenue,
                         transaction_count |-> s.transaction_count,
                         unique_customers |->
                            Cardinality(s.unique_customers)]]]

(***************************************************************************)
(* find_peak_sales_day.py                                                  *)
(***************************************************************************)
PeakStep(daily_stats, transaction) ==
    LET date == transaction.Date
        revenue == FMul(transaction.Quantity, transaction.UnitPrice)
        stats == IF KeyIndex(daily_stats, date) = 0
                 THEN Append(daily_stats,
                             [key |-> date, revenue |-> 0,
                              transaction_count |-> 0])
                 ELSE daily_stats
        i == KeyIndex(stats, date)
    IN  [stats EXCEPT ![i].revenue = FAdd(@, revenue),
                      ![i].transaction_count = @ + 1]

RECURSIVE PeakLoop(_, _)
PeakLoop(daily_stats, ts) ==
    IF ts = <<>> THEN daily_stats
    ELSE PeakLoop(PeakStep(daily_stats, Head(ts)), Tail(ts))

\* max(items, key=revenue): the first of the items with the largest key
RECURSIVE MaxByRevenueLast(_, _)
MaxByRevenueLast(best, items) ==
    IF items = <<>> THEN best
    ELSE IF Head(items).revenue >= best.revenue
    THEN MaxByRevenueLast(Head(items), Tail(items))
    ELSE MaxByRevenueLast(best, Tail(items))

RECURSIVE MaxByRevenue(_, _)
MaxByRevenue(best, items) ==
    IF items = <<>> THEN best
    ELSE IF Head(items).revenue > best.revenue
    THEN MaxByRevenue(Head(items), Tail(items))
    ELSE MaxByRevenue(best, Tail(items))

find_peak_sales_day(ts) ==
    LET daily_stats == PeakLoop(<<>>, ts)
    IN  IF daily_stats = <<>> THEN None
        ELSE LET peak_date == MaxByRevenue(Head(daily_stats), Tail(daily_stats))
             IN  <<peak_date.key, peak_date.revenue,
                   peak_date.transaction_count>>

(***************************************************************************)
(* enrich_sales_data_raw.py: parse_sales_data_raw,                         *)
(* validate_sales_transactions                                             *)
(***************************************************************************)
RECURSIVE Split(_, _)
Split(s, sep) ==
    IF \A i \in 1..Len(s) : s[i] # sep THEN <<s>>
    ELSE LET k == CHOOSE i \in 1..Len(s) :
                      s[i] = sep /\ \A j \in 1..(i - 1) : s[j] # sep
         IN  <<SubSeq(s, 1, k - 1)>> \o Split(SubSeq(s, k + 1, Len(s)), sep)

RECURSIVE Join(_, _)
Join(fields, sep) ==
    IF fields = <<>> THEN <<>>
    ELSE IF Len(fields) = 1 THEN fields[1]
    ELSE fields[1] \o <<sep>> \o Join(Tail(fields), sep)

RemoveCommas(s) == SelectSeq(s, LAMBDA c : c # ",")

Digits == <<"0", "1", "2", "3", "4", "5", "6", "7", "8", "9">>

IsDigit(c) == \E d \in 1..10 : Digits[d] = c

DigitValue(c) == (CHOOSE d \in 1..10 : Digits[d] = c) - 1

RECURSIVE DecimalValue(_)
DecimalValue(s) ==
    IF s = <<>> THEN 0
    ELSE 10 * DecimalValue(SubSeq(s, 1, Len(s) - 1)) + DigitValue(s[Len(s)])

IsDecimal(s) == s # <<>> /\ \A i \in 1..Len(s) : IsDigit(s[i])

\* int(s) / float(s) on signed decimal numerals; anything else is a ValueError
IsNumeral(s) ==
    IF s # <<>> /\ Head(s) = "-" THEN IsDecimal(Tail(s)) ELSE IsDecimal(s)

NumeralValue(s) ==
    IF Head(s) = "-" THEN 0 - DecimalValue(Tail(s)) ELSE DecimalValue(s)

header ==
    <<"TransactionID", "Date", "ProductID", "ProductName",
      "Quantity", "UnitPrice", "CustomerID", "Region">>

RawField(col, value) ==
    IF col = "Quantity"
    THEN IF IsNumeral(RemoveCommas(value))
         THEN NumeralValue(RemoveCommas(value)) ELSE 0
    ELSE IF col = "UnitPrice"
    THEN IF IsNumeral(RemoveCommas(value))
         THEN ToFloat(NumeralValue(RemoveCommas(value))) ELSE 0
    ELSE IF value # <<>> THEN value ELSE None

RawTransaction(values) ==
    [col \in Range(header) |->
        RawField(col, Strip(values[CHOOSE i \in 1..Len(header) : header[i] = col]))]

RECURSIVE parse_rows(_)
parse_rows(lines) ==
    IF lines = <<>> THEN <<>>
    ELSE LET line == Strip(Head(lines))
             values == Split(line, "|")
         IN  IF line = <<>> \/ Len(values) < Len(header)
             THEN parse_rows(Tail(lines))
             ELSE <<RawTransaction(values)>> \o parse_rows(Tail(lines))

\* the file is given without its header line, which is the fixed 8-column one
parse_sales_data_raw(readable, lines) ==
    IF ~readable THEN <<>> ELSE parse_rows(lines)

Truthy(value) == value # None /\ value # <<>>

IsValidSale(transaction) ==
    IF ~Truthy(Get(transaction, "TransactionID", None)) THEN FALSE
    ELSE IF ~(StartsWith(transaction.TransactionID, "T")
              \/ StartsWith(transaction.TransactionID, "X")) THEN FALSE
    ELSE IF Get(transaction, "Quantity", 0) <= 0 THEN FALSE
    ELSE IF Get(transaction, "UnitPrice", 0) <= 0 THEN FALSE
    ELSE IF ~Truthy(Get(transaction, "CustomerID", None)) THEN FALSE
    ELSE TRUE

validate_sales_transactions(ts) ==
    [valid |-> SelectSeq(ts, IsValidSale),
     invalid_count |-> Len(SelectSeq(ts, LAMBDA t : ~IsValidSale(t)))]

(***************************************************************************)
(* read_sales_data.py, parse_transactions.py                               *)
(* A parsed UnitPrice is kept as the decimal number its text denotes,      *)
(* [m |-> mantissa, e |-> decimals] for m * 10^(-e) without trailing       *)
(* zeros: float() is one-to-one on the short decimals read here, and       *)
(* str() of a float is the shortest decimal text that reads back the same. *)
(***************************************************************************)
Unsigned(s) == IF s # <<>> /\ Head(s) \in {"+", "-"} THEN Tail(s) ELSE s

\* int(s): surrounding whitespace, an optional sign, decimal digits
IsInt(s) == IsDecimal(Unsigned(Strip(s)))

IntValue(s) ==
    IF Head(Strip(s)) = "-" THEN 0 - DecimalValue(Unsigned(Strip(s)))
    ELSE DecimalValue(Unsigned(Strip(s)))

AllDigits(s) == \A i \in 1..Len(s) : IsDigit(s[i])

\* float(s): surrounding whitespace, an optional sign, digits with an
\* optional point (exponents, inf and nan are not among the texts read)
IsFloat(s) ==
    LET parts == Split(Unsigned(Strip(s)), ".")
    IN  \/ Len(parts) = 1 /\ IsDecimal(parts[1])
        \/ /\ Len(parts) = 2
           /\ AllDigits(parts[1])
           /\ AllDigits(parts[2])
           /\ parts[1] \o parts[2] # <<>>

RECURSIVE Normalised(_, _)
Normalised(m, e) ==
    IF e > 0 /\ m % 10 = 0 THEN Normalised(m \div 10, e - 1)
    ELSE [m |-> m, e |-> e]

FloatValue(s) ==
    LET parts == Split(Unsigned(Strip(s)), ".")
        frac == IF Len(parts) = 2 THEN parts[2] ELSE <<>>
        magnitude == DecimalValue(parts[1] \o frac)
    IN  Normalised(IF Head(Strip(s)) = "-" THEN 0 - magnitude ELSE magnitude,
                   Len(frac))

\* the body of the loop: a one-record list, or nothing for a skipped line
ParseLineLenient(line) ==
    LET fields == Split(line, "|")
        quantity_str == RemoveCommas(Strip(fields[5]))
        price_str == RemoveCommas(Strip(fields[6]))
    IN  IF Len(fields) < 8 THEN <<>>
        ELSE IF ~IsInt(quantity_str) THEN <<>>
        ELSE IF ~IsFloat(price_str) THEN <<>>
        ELSE << [TransactionID |-> Strip(fields[1]),
                 Date |-> Strip(fields[2]),
                 ProductID |-> Strip(fields[3]),
                 ProductName |-> RemoveCommas(Strip(fields[4])),
                 Quantity |-> IntValue(quantity_str),
                 UnitPrice |-> FloatValue(price_str),
                 CustomerID |-> Strip(fields[7]),
                 Region |-> Strip(fields[8])] >>

ParseLine(line) ==
    LET fields == Split(line, "|")
        quantity_str == RemoveCommas(Strip(fields[5]))
        price_str == RemoveCommas(Strip(fields[6]))
    IN  IF Len(fields) # 8 THEN <<>>
        ELSE IF ~IsInt(quantity_str) THEN <<>>
        ELSE IF ~IsFloat(price_str) THEN <<>>
        ELSE << [TransactionID |-> Strip(fields[1]),
                 Date |-> Strip(fields[2]),
                 ProductID |-> Strip(fields[3]),
                 ProductName |-> RemoveCommas(Strip(fields[4])),
                 Quantity |-> IntValue(quantity_str),
                 UnitPrice |-> FloatValue(price_str),
                 CustomerID |-> Strip(fields[7]),
                 Region |-> Strip(fields[8])] >>

RECURSIVE parse_transactions(_)
parse_transactions(raw_lines) ==
    IF raw_lines = <<>> THEN <<>>
    ELSE ParseLine(Head(raw_lines)) \o parse_transactions(Tail(raw_lines))

RECURSIVE NatStr(_)
NatStr(n) ==
    IF n < 10 THEN <<Digits[n + 1]>>
    ELSE NatStr(n \div 10) \o <<Digits[(n % 10) + 1]>>

\* str() of an int
IntStr(n) == IF n < 0 THEN <<"-">> \o NatStr(0 - n) ELSE NatStr(n)

RECURSIVE Zeros(_)
Zeros(k) == IF k <= 0 THEN <<>> ELSE <<"0">> \o Zeros(k - 1)

\* str() of a float: 8.0, 0.5, -1.25
FloatStr(x) ==
    LET magnitude == IF x.m < 0 THEN 0 - x.m ELSE x.m
        digits == NatStr(magnitude)
        padded == Zeros(x.e + 1 - Len(digits)) \o digits
        whole == SubSeq(padded, 1, Len(padded) - x.e)
        frac == IF x.e = 0 THEN <<"0">>
                ELSE SubSeq(padded, Len(padded) - x.e + 1, Len(padded))
    IN  (IF x.m < 0 THEN <<"-">> ELSE <<>>) \o whole \o <<".">> \o frac

\* a record written as a row: str(value) of each column, joined by '|'
WriteRowFloatQuantity(transaction) ==
    Join(<<transaction.TransactionID, transaction.Date,
           transaction.ProductID, transaction.ProductName,
           FloatStr([m |-> transaction.Quantity, e |-> 0]),
           FloatStr(transaction.UnitPrice),
           transaction.CustomerID, transaction.Region>>, "|")

WriteRow(transaction) ==
    Join(<<transaction.TransactionID, transaction.Date,
           transaction.ProductID, transaction.ProductName,
           IntStr(transaction.Quantity), FloatStr(transaction.UnitPrice),
           transaction.CustomerID, transaction.Region>>, "|")

encodings == <<"utf-8", "latin-1", "cp1252">>

\* file.readlines(): the lines with their line ends
RECURSIVE ReadLines(_)
ReadLines(content) ==
    IF content = <<>> THEN <<>>
    ELSE IF \A i \in 1..Len(content) : content[i] # "\n" THEN <<content>>
    ELSE LET k == CHOOSE i \in 1..Len(content) :
                      content[i] = "\n" /\ \A j \in 1..(i - 1) : content[j] # "\n"
         IN  <<SubSeq(content, 1, k)>>
                \o ReadLines(SubSeq(content, k + 1, Len(content)))

\* the loop over the lines after the first: stripped, empty ones dropped
RECURSIVE DataLines(_)
DataLines(lines) ==
    IF lines = <<>> THEN <<>>
    ELSE IF Strip(Head(lines)) # <<>>
    THEN <<Strip(Head(lines))>> \o DataLines(Tail(lines))
    ELSE DataLines(Tail(lines))

\* latin-1 decodes every byte sequence, utf-8 only valid ones
Decodes(file, encoding) == encoding = "utf-8" => file.utf8

RECURSIVE ReadWithHeader(_, _)
ReadWithHeader(file, encs) ==
    IF encs = <<>> THEN [raised |-> "UnicodeDecodeError"]
    ELSE IF ~file.exists THEN [raised |-> "FileNotFoundError"]
    ELSE IF ~file.readable THEN [raised |-> "Exception"]
    ELSE IF ~Decodes(file, Head(encs)) THEN ReadWithHeader(file, Tail(encs))
    ELSE [lines |-> DataLines(ReadLines(file.content))]

RECURSIVE ReadWith(_, _)
ReadWith(file, encs) ==
    IF encs = <<>> THEN [raised |-> "UnicodeDecodeError"]
    ELSE IF ~file.exists THEN [raised |-> "FileNotFoundError"]
    ELSE IF ~file.readable THEN [raised |-> "Exception"]
    ELSE IF ~Decodes(file, Head(encs)) THEN ReadWith(file, Tail(encs))
    ELSE LET lines == ReadLines(file.content)
         IN  [lines |-> IF lines = <<>> THEN <<>> ELSE DataLines(Tail(lines))]

read_sales_data(file) == ReadWith(file, encodings)

(***************************************************************************)
(* The cleaning scripts: remove_incomplete_rows.py, remove_zero_quantity.py *)
(* remove_negative_price.py, remove_invalid_transactionid.py               *)
(* A file is the sequence of its lines; the rows hold no quote characters, *)
(* so csv reads a line as its '|'-separated fields (a blank line as the    *)
(* empty row) and writes a row as its fields joined by '|'.                *)
(***************************************************************************)
CsvRow(line) == IF line = <<>> THEN <<>> ELSE Split(line, "|")

CsvRows(lines) == [i \in 1..Len(lines) |-> CsvRow(lines[i])]

CsvLines(rows) == [i \in 1..Len(rows) |-> Join(rows[i], "|")]

\* enumerate(reader, 2): the data rows with their row numbers
Numbered(rows) ==
    [i \in 1..(Len(rows) - 1) |-> [row_num |-> i + 1, row |-> rows[i + 1]]]

RowsOf(numbered) == [i \in 1..Len(numbered) |-> numbered[i].row]

removed_header ==
    Join(<<<<"RowNumber">>, <<"TransactionID">>, <<"Date">>, <<"ProductID">>,
           <<"ProductName">>, <<"Quantity">>, <<"UnitPrice">>,
           <<"CustomerID">>, <<"Region">>>>, "|")

\* the removed file: the header and f"{row_num}|" + '|'.join(row) per row
RemovedLines(numbered) ==
    <<removed_header>>
        \o [i \in 1..Len(numbered) |->
                IntStr(numbered[i].row_num) \o <<"|">>
                    \o Join(numbered[i].row, "|")]

IsEmptyRow(row) == row = <<>> \/ \A i \in 1..Len(row) : Strip(row[i]) = <<>>

IsCompleteRow(row) ==
    /\ ~IsEmptyRow(row)
    /\ Len(row) >= 8
    /\ Strip(row[7]) # <<>>
    /\ Strip(row[8]) # <<>>

\* the first row is kept as the header whatever it holds
remove_incomplete_rows(lines) ==
    LET rows == CsvRows(lines)
    IN  [output |->
            CsvLines(IF rows = <<>> THEN <<>>
                     ELSE <<Head(rows)>> \o SelectSeq(Tail(rows), IsCompleteRow))]

HasPositiveQuantityOrZero(row) ==
    /\ Len(row) >= 5
    /\ IsInt(Strip(row[5]))
    /\ IntValue(Strip(row[5])) >= 0

HasPositiveQuantity(row) ==
    /\ Len(row) >= 5
    /\ IsInt(Strip(row[5]))
    /\ IntValue(Strip(row[5])) > 0

\* next(reader) on a file without lines raises StopIteration
remove_zero_quantity(lines) ==
    LET rows == CsvRows(lines)
    IN  IF rows = <<>> THEN [raised |-> "StopIteration"]
        ELSE [output |->
                CsvLines(<<Head(rows)>>
                            \o SelectSeq(Tail(rows), HasPositiveQuantity)),
              removed |->
                RemovedLines(SelectSeq(Numbered(rows),
                    LAMBDA r : Len(r.row) >= 5 /\ ~HasPositiveQuantity(r.row)))]

HasPositivePrice(row) ==
    /\ Len(row) >= 6
    /\ IsFloat(RemoveCommas(Strip(row[6])))
    /\ FloatValue(RemoveCommas(Strip(row[6]))).m > 0

remove_negative_price(lines) ==
    LET rows == CsvRows(lines)
    IN  IF rows = <<>> THEN [raised |-> "StopIteration"]
        ELSE [output |->
                CsvLines(<<Head(rows)>>
                            \o SelectSeq(Tail(rows), HasPositivePrice)),
              removed |->
                RemovedLines(SelectSeq(Numbered(rows),
                    LAMBDA r : Len(r.row) >= 6 /\ ~HasPositivePrice(r.row)))]

HasValidTransactionID(row) ==
    /\ Len(row) >= 1
    /\ StartsWith(Strip(row[1]), "T")

remove_invalid_transactionid(lines) ==
    LET rows == CsvRows(lines)
    IN  IF rows = <<>> THEN [raised |-> "StopIteration"]
        ELSE [output |->
                CsvLines(<<Head(rows)>>
                            \o SelectSeq(Tail(rows), HasValidTransactionID)),
              removed |->
                RemovedLines(SelectSeq(Numbered(rows),
                    LAMBDA r : Len(r.row) >= 1
                               /\ ~HasValidTransactionID(r.row)))]

(***************************************************************************)
(* fetch_all_products.py, create_product_mapping.py                        *)
(* A JSON object is [dict |-> record], any other JSON value [list |-> seq] *)
(***************************************************************************)
JsonDict(d) == [dict |-> d]

JsonList(l) == [list |-> l]

IsDict(x) == "dict" \in DOMAIN x

NA == <<"N", "/", "A">>

UnknownBrand == Unknown

simplified_product(product) ==
    [id |-> Get(product.dict, "id", Nothing),
     title |-> Get(product.dict, "title", NA),
     category |-> Get(product.dict, "category", NA),
     brand |-> Get(product.dict, "brand", UnknownBrand),
     price |-> Get(product.dict, "price", 0),
     rating |-> Get(product.dict, "rating", 0),
     stock |-> Get(product.dict, "stock", 0),
     discount |-> Get(product.dict, "discountPercentage", 0),
     sku |-> Get(product.dict, "sku", NA)]

RequestErrors == {"Timeout", "ConnectionError", "HTTPError", "RequestException"}

fetch_all_products_unchecked_status(resp) ==
    IF resp.kind \in RequestErrors THEN <<>>
    ELSE IF ~resp.is_json THEN <<>>
    ELSE IF ~IsDict(resp.data) THEN <<>>
    ELSE LET products == Get(resp.data.dict, "products", <<>>)
         IN  IF products = <<>> THEN <<>>
             ELSE IF \E i \in 1..Len(products) : ~IsDict(products[i]) THEN <<>>
             ELSE [i \in 1..Len(products) |-> simplified_product(products[i])]

fetch_all_products(resp) ==
    IF resp.kind \in RequestErrors THEN <<>>
    ELSE IF resp.status_code # 200 THEN <<>>
    ELSE IF ~resp.is_json THEN <<>>
    ELSE IF ~IsDict(resp.data) THEN <<>>
    ELSE LET products == Get(resp.data.dict, "products", <<>>)
         IN  IF products = <<>> THEN <<>>
             ELSE IF \E i \in 1..Len(products) : ~IsDict(products[i]) THEN <<>>
             ELSE [i \in 1..Len(products) |-> simplified_product(products[i])]

product_info(product) ==
    [key |-> product.id.v,
     title |-> Get(product, "title", NA),
     category |-> Get(product, "category", NA),
     brand |-> Get(product, "brand", UnknownBrand),
     price |-> Get(product, "price", 0),
     rating |-> Get(product, "rating", 0),
     stock |-> Get(product, "stock", 0),
     discount |-> Get(product, "discount", 0),
     sku |-> Get(product, "sku", NA)]

MappingStep(mapping, product) ==
    IF Get(product, "id", Nothing) = Nothing THEN mapping
    ELSE LET info == product_info(product)
             i == KeyIndex(mapping, info.key)
         IN  IF i = 0 THEN Append(mapping, info)
             ELSE [mapping EXCEPT ![i] = info]

RECURSIVE MappingLoop(_, _)
MappingLoop(mapping, products) ==
    IF products = <<>> THEN mapping
    ELSE MappingLoop(MappingStep(mapping, Head(products)), Tail(products))

create_product_mapping(products) == MappingLoop(<<>>, products)

(***************************************************************************)
(* enrich_sales_data_raw.py: enrich_with_api_mapping, save_enriched_to_*   *)
(***************************************************************************)
NumericId(product_id_str) ==
    IF StartsWith(product_id_str, "P") /\ IsNumeral(Tail(product_id_str))
    THEN Some(NumeralValue(Tail(product_id_str)))
    ELSE Nothing

Enriched(transaction, mapping) ==
    LET numeric_id == NumericId(transaction.ProductID)
        i == IF numeric_id = Nothing THEN 0 ELSE KeyIndex(mapping, numeric_id.v)
        matched == numeric_id # Nothing /\ numeric_id.v # 0 /\ i # 0
    IN  [k \in DOMAIN transaction \cup
               {"API_Category", "API_Brand", "API_Rating", "API_Price",
                "API_Stock", "API_Discount", "API_Match"} |->
            IF k = "API_Match" THEN matched
            ELSE IF k = "API_Category"
            THEN IF matched THEN mapping[i].category ELSE None
            ELSE IF k = "API_Brand"
            THEN IF matched THEN mapping[i].brand ELSE None
            ELSE IF k = "API_Rating"
            THEN IF matched THEN Some(mapping[i].rating) ELSE Nothing
            ELSE IF k = "API_Price"
            THEN IF matched THEN Some(mapping[i].price) ELSE Nothing
            ELSE IF k = "API_Stock"
            THEN IF matched THEN Some(mapping[i].stock) ELSE Nothing
            ELSE IF k = "API_Discount"
            THEN IF matched THEN Some(mapping[i].discount) ELSE Nothing
            ELSE transaction[k]]

\* None.startswith raises AttributeError: the record is skipped (line 181)
RECURSIVE EnrichLoop(_, _)
EnrichLoop(ts, mapping) ==
    IF ts = <<>> THEN <<>>
    ELSE IF Get(Head(ts), "ProductID", <<>>) = None
    THEN EnrichLoop(Tail(ts), mapping)
    ELSE <<Enriched(Head(ts), mapping)>> \o EnrichLoop(Tail(ts), mapping)

\* called with a non-empty list: the closing print divides by len(transactions)
enrich_with_api_mapping(ts, mapping) == EnrichLoop(ts, mapping)

\* enrich_sales_data.py: the same loop behind two emptiness checks
enrich_sales_data(ts, mapping) ==
    IF ts = <<>> THEN <<>>
    ELSE IF mapping = <<>> THEN <<>>
    ELSE EnrichLoop(ts, mapping)

save_enriched_to_file(enriched, io_ok) ==
    IF enriched = <<>> THEN FALSE ELSE io_ok

save_enriched_to_json(enriched, io_ok) == io_ok

(***************************************************************************)
(* generate_sales_report.py: generate_sales_report                         *)
(***************************************************************************)
Take(s, n) == SubSeq(s, 1, IF Len(s) < n THEN Len(s) ELSE n)

\* data['name'][:32] on a product whose name is None raises TypeError
TopProductsRaises(metrics) ==
    LET top == Take(SortDesc(metrics.products, "revenue"), 5)
    IN  \E i \in 1..Len(top) : top[i].name = None

\* sorted(unmatched_products) on a set holding None and a str raises TypeError
EnrichmentSummaryRaises(enriched) ==
    LET unmatched == {Get(enriched[i], "ProductName", Unknown) :
                        i \in {j \in 1..Len(enriched) : ~enriched[j].API_Match}}
    IN  None \in unmatched /\ unmatched # {None}

generate_sales_report_unchecked_input(ts, enriched, io_ok) ==
    IF TopProductsRaises(calculate_report_metrics(ts, enriched)) THEN FALSE
    ELSE IF EnrichmentSummaryRaises(enriched) THEN FALSE
    ELSE io_ok

generate_sales_report(ts, enriched, io_ok) ==
    IF ts = <<>> \/ enriched = <<>> THEN FALSE
    ELSE IF TopProductsRaises(calculate_report_metrics(ts, enriched)) THEN FALSE
    ELSE IF EnrichmentSummaryRaises(enriched) THEN FALSE
    ELSE io_ok

\* what is left at output_file: nothing when the function returns before
\* open() or open() fails, a partial file when the write fails
ReportFile(ts, enriched, io) ==
    IF ~generate_sales_report(ts, enriched, TRUE) THEN {}
    ELSE IF io = "open_fails" THEN {}
    ELSE IF io = "write_fails" THEN {"report_partial"}
    ELSE {"report"}

(***************************************************************************)
(* main.py                                                                 *)
(***************************************************************************)
\* get_filter_criteria: a ValueError on the minimum skips the maximum prompt
get_filter_criteria(region_input, min_input, max_input) ==
    LET region_choice == Strip(region_input)
        mn == Strip(min_input)
        mx == Strip(max_input)
        min_error == mn # <<>> /\ ~IsNumeral(mn)
        has_min == mn # <<>> /\ IsNumeral(mn)
        has_max == ~min_error /\ mx # <<>> /\ IsNumeral(mx)
        keys == (IF region_choice # <<>> THEN {"region"} ELSE {})
                \cup (IF has_min THEN {"min_amount"} ELSE {})
                \cup (IF has_max THEN {"max_amount"} ELSE {})
    IN  [k \in keys |->
            IF k = "region" THEN region_choice
            ELSE IF k = "min_amount" THEN ToFloat(NumeralValue(mn))
            ELSE ToFloat(NumeralValue(mx))]

OnKeyboardInterrupt == "False"

OnExceptionReraised == "raised"

OnException == "False"

ExitStatus(success) == IF success = "True" THEN 0 ELSE 1

Running ==
    {"start", "filter", "validate", "fetch", "mapping", "enrich", "save", "report",
     "complete"}

\* main returns and the script exits: sys.exit(0 if success else 1)
Return(value, met) ==
    /\ result' = value
    /\ failures' = failures \cup met
    /\ exit_code' = Some(ExitStatus(value))
    /\ pc' = "exited"

Continue(next) ==
    /\ pc' = next
    /\ UNCHANGED <<result, failures, exit_code>>

\* Step 1-2: the file is missing, unreadable, or read and parsed
MainRead(file) ==
    /\ pc = "start"
    /\ sales_file' = file
    /\ steps' = Append(steps, "read")
    /\ IF ~file.exists
       THEN /\ raw_transactions' = <<>>
            /\ Return("False", {"missing_file"})
       ELSE LET parsed == parse_sales_data_raw(file.readable, file.lines)
            IN  /\ raw_transactions' = parsed
                /\ IF parsed = <<>>
                   THEN Return("False", {"empty_parse"})
                   ELSE Continue("filter")
    /\ UNCHANGED <<fvars, filters, valid_transactions, invalid_count, response,
                   api_products, product_mapping, enriched_transactions,
                   files>>

\* Step 3: the answer is 'y' or 'n' (get_filter_choice asks until it is)
MainFilter(choice, region_input, min_input, max_input) ==
    /\ pc = "filter"
    /\ steps' = Append(steps, "filter")
    /\ filters' = IF choice = "y"
                  THEN get_filter_criteria(region_input, min_input, max_input)
                  ELSE <<>>
    /\ Continue("validate")
    /\ UNCHANGED <<fvars, sales_file, raw_transactions, valid_transactions,
                   invalid_count, response, api_products, product_mapping,
                   enriched_transactions, files>>

\* Step 4
MainValidate ==
    /\ pc = "validate"
    /\ steps' = Append(steps, "validate")
    /\ LET v == validate_sales_transactions(raw_transactions)
       IN  /\ valid_transactions' = v.valid
           /\ invalid_count' = v.invalid_count
           /\ IF v.valid = <<>>
              THEN Return("False", {"no_valid"})
              ELSE Continue("fetch")
    /\ UNCHANGED <<fvars, sales_file, raw_transactions, filters, response,
                   api_products, product_mapping, enriched_transactions,
                   files>>

\* Step 5
MainFetch(resp) ==
    /\ pc = "fetch"
    /\ steps' = Append(steps, "fetch")
    /\ response' = resp
    /\ api_products' = fetch_all_products(resp)
    /\ IF fetch_all_products(resp) = <<>>
       THEN Return("False", {"fetch_failed"})
       ELSE Continue("mapping")
    /\ UNCHANGED <<fvars, sales_file, raw_transactions, filters,
                   valid_transactions, invalid_count, product_mapping,
                   enriched_transactions, files>>

\* Step 6
MainMapping ==
    /\ pc = "mapping"
    /\ steps' = Append(steps, "mapping")
    /\ product_mapping' = create_product_mapping(api_products)
    /\ IF create_product_mapping(api_products) = <<>>
       THEN Return("False", {"empty_mapping"})
       ELSE Continue("enrich")
    /\ UNCHANGED <<fvars, sales_file, raw_transactions, filters,
                   valid_transactions, invalid_count, response, api_products,
                   enriched_transactions, files>>

\* Step 7
MainEnrich ==
    /\ pc = "enrich"
    /\ steps' = Append(steps, "enrich")
    /\ LET enriched == enrich_with_api_mapping(valid_transactions,
                                               product_mapping)
       IN  /\ enriched_transactions' = enriched
           /\ IF enriched = <<>>
              THEN Return("False", {"empty_enrichment"})
              ELSE Continue("save")
    /\ UNCHANGED <<fvars, sales_file, raw_transactions, filters,
                   valid_transactions, invalid_count, response, api_products,
                   product_mapping, files>>

\* Step 8: both return values are dropped (lines 243-244)
MainSave(txt_io_ok, json_io_ok) ==
    /\ pc = "save"
    /\ steps' = Append(steps, "save")
    /\ LET txt == save_enriched_to_file(enriched_transactions, txt_io_ok)
           json == save_enriched_to_json(enriched_transactions, json_io_ok)
       IN  /\ files' = files \cup (IF txt THEN {"txt"} ELSE {})
                             \cup (IF json THEN {"json"} ELSE {})
           /\ failures' = failures \cup
                            (IF txt /\ json THEN {} ELSE {"save_failed"})
    /\ pc' = "report"
    /\ UNCHANGED <<fvars, sales_file, raw_transactions, filters,
                   valid_transactions, invalid_count, response, api_products,
                   product_mapping, enriched_transactions, result, exit_code>>

\* Step 9
MainReport(io_ok) ==
    /\ pc = "report"
    /\ steps' = Append(steps, "report")
    /\ IF generate_sales_report(valid_transactions, enriched_transactions,
                                io_ok)
       THEN /\ files' = files \cup {"report"}
            /\ Continue("complete")
       ELSE /\ files' = files
            /\ Return("False", {"report_failed"})
    /\ UNCHANGED <<fvars, sales_file, raw_transactions, filters,
                   valid_transactions, invalid_count, response, api_products,
                   product_mapping, enriched_transactions>>

\* Step 10
MainComplete ==
    /\ pc = "complete"
    /\ steps' = Append(steps, "complete")
    /\ Return("True", {})
    /\ UNCHANGED <<fvars, sales_file, raw_transactions, filters,
                   valid_transactions, invalid_count, response, api_products,
                   product_mapping, enriched_transactions, files>>

\* Ctrl-C anywhere inside the try block
MainInterrupt ==
    /\ pc \in Running
    /\ Return(OnKeyboardInterrupt, {"interrupt"})
    /\ UNCHANGED <<fvars, sales_file, raw_transactions, filters,
                   valid_transactions, invalid_count, response, api_products,
                   product_mapping, enriched_transactions, files, steps>>

\* any other exception inside the try block (EOFError from input(), ...)
MainError ==
    /\ pc \in Running
    /\ Return(OnException, {"exception"})
    /\ UNCHANGED <<fvars, sales_file, raw_transactions, filters,
                   valid_transactions, invalid_count, response, api_products,
                   product_mapping, enriched_transactions, files, steps>>

(***************************************************************************)
(* Claims about validate_and_filter                                        *)
(***************************************************************************)
RECURSIVE IsSubSeq(_, _)
IsSubSeq(s, t) ==
    IF s = <<>> THEN TRUE
    ELSE IF t = <<>> THEN FALSE
    ELSE IF Head(s) = Head(t) THEN IsSubSeq(Tail(s), Tail(t))
    ELSE IsSubSeq(s, Tail(t))

Count(s, P(_)) == Cardinality({i \in 1..Len(s) : P(s[i])})

\* C1: validate_and_filter never increases the record count: whatever the
\* region, min_amount and max_amount arguments, the returned list is a
\* sub-sequence of the input and final_count <= valid <= total_input.
C1_FilterNeverIncreases ==
    pc = "vf_returned" =>
        /\ IsSubSeq(ret.list, transactions)
        /\ Len(ret.list) <= Len(transactions)
        /\ ret.summary.final_count <= ret.summary.valid
        /\ ret.summary.valid <= ret.summary.total_input
        /\ ret.summary.total_input = Len(transactions)

C1_Witness ==
    /\ pc = "vf_returned"
    /\ args.region # None
    /\ args.min_amount # Nothing
    /\ 0 < Len(ret.list)
    /\ Len(ret.list) < ret.summary.valid
    /\ ret.summary.valid < Len(transactions)

C3_Qualifies(t) ==
    /\ required_fields \subseteq DOMAIN t
    /\ t.Quantity > 0
    /\ t.UnitPrice > 0
    /\ StartsWith(t.TransactionID, "T")
    /\ StartsWith(t.ProductID, "P")
    /\ StartsWith(t.CustomerID, "C")

C2_InRange(t) ==
    /\ (args.min_amount = Nothing \/ Amount(t) >= args.min_amount.v)
    /\ (args.max_amount = Nothing \/ Amount(t) <= args.max_amount.v)

C2_InRegion(t) == args.region = None \/ t.Region = Strip(args.region)

C2_DroppedByRegion(t) == C3_Qualifies(t) /\ ~C2_InRegion(t)

C2_DroppedByAmount(t) == C3_Qualifies(t) /\ C2_InRegion(t) /\ ~C2_InRange(t)

\* C2: the summary balances: total_input = invalid + valid and
\* valid = filtered_by_region + filtered_by_amount + final_count, the region
\* filter coming first and filtered_by_amount counting only records that
\* survived it; invalid_count = summary.invalid, len(list) = final_count.
C2_SummaryBalances ==
    pc = "vf_returned" =>
        LET s == ret.summary IN
        /\ s.total_input = s.invalid + s.valid
        /\ s.valid = s.filtered_by_region + s.filtered_by_amount + s.final_count
        /\ s.filtered_by_region = Count(transactions, C2_DroppedByRegion)
        /\ s.filtered_by_amount = Count(transactions, C2_DroppedByAmount)
        /\ ret.invalid_count = s.invalid
        /\ Len(ret.list) = s.final_count

C2_Witness ==
    /\ pc = "vf_returned"
    /\ ret.summary.invalid > 0
    /\ ret.summary.filtered_by_region > 0
    /\ ret.summary.filtered_by_amount > 0

C3_NoFilters ==
    /\ args.region = None
    /\ args.min_amount = Nothing
    /\ args.max_amount = Nothing

\* C3: called with no filters, validate_and_filter returns a transaction iff
\* it has all eight required fields, Quantity > 0, UnitPrice > 0 and the
\* T / P / C identifier prefixes; every other one is counted once in
\* invalid_count.
C3_ValidIffRules ==
    (pc = "vf_returned" /\ C3_NoFilters) =>
        /\ ret.list = SelectSeq(transactions, C3_Qualifies)
        /\ ret.invalid_count = Len(transactions) - Len(ret.list)

C3_Witness ==
    /\ pc = "vf_returned"
    /\ C3_NoFilters
    /\ Len(ret.list) >= 1
    /\ ret.invalid_count >= 2

(***************************************************************************)
(* The analysis functions on validated transactions                        *)
(***************************************************************************)
Sale(date, pid, name, q, p, cid, region) ==
    [TransactionID |-> Str("T", "1"), Date |-> date, ProductID |-> pid,
     ProductName |-> name, Quantity |-> q, UnitPrice |-> p,
     CustomerID |-> cid, Region |-> region]

SaleAmounts == {<<1, 1>>, <<2, 8>>, <<1, 8>>}

SalesTx ==
    UNION {
        { Sale(Str("0", "1"), Str("P", "1"), <<"L">>, a[1], a[2], Str("C", "1"), North),
          Sale(Str("0", "2"), Str("P", "1"), <<"L">>, a[1], a[2], Str("C", "2"), North),
          Sale(Str("0", "1"), Str("P", "1"), <<"L">>, a[1], a[2], Str("C", "2"), South),
          Sale(Str("0", "2"), Str("P", "2"), <<"M">>, a[1], a[2], Str("C", "1"), South) }
        : a \in SaleAmounts }
    \cup { Sale(None, None, None, 1, 1, Str("C", "1"), None) }

SampleMapping ==
    create_product_mapping(<<[id |-> Some(1), title |-> <<"i">>]>>)

InitAgg ==
    /\ pc = "input"
    /\ transactions \in SeqsUpTo(SalesTx, MaxTx)
    /\ args = NoArgs
    /\ ret = NoRet
    /\ MainIdle

CallCalculateTotalRevenue ==
    /\ pc = "input"
    /\ ret' = [total_revenue |-> calculate_total_revenue(transactions)]
    /\ pc' = "ctr_returned"
    /\ UNCHANGED <<transactions, args, mvars>>

CallRegionWiseSales ==
    /\ pc = "input"
    /\ ret' = region_wise_sales(transactions)
    /\ pc' = "rws_returned"
    /\ UNCHANGED <<transactions, args, mvars>>

\* as generate_sales_report calls it: with the list and its enrichment
CallCalculateReportMetrics ==
    /\ pc = "input"
    /\ args' = [enriched_transactions |->
                    enrich_with_api_mapping(transactions, SampleMapping)]
    /\ ret' = calculate_report_metrics(
                  transactions,
                  enrich_with_api_mapping(transactions, SampleMapping))
    /\ pc' = "crm_returned"
    /\ UNCHANGED <<transactions, mvars>>

TopN == (0 - 2)..MaxTx

CallTopSellingProducts(n) ==
    /\ pc = "input"
    /\ args' = [n |-> n]
    /\ ret' = [products |-> top_selling_products(transactions, n)]
    /\ pc' = "tsp_returned"
    /\ UNCHANGED <<transactions, mvars>>

Thresholds == {1, 2, 3, 10}

CallLowPerformingProducts(threshold) ==
    /\ pc = "input"
    /\ args' = [threshold |-> threshold]
    /\ ret' = [products |-> low_performing_products(transactions, threshold)]
    /\ pc' = "lpp_returned"
    /\ UNCHANGED <<transactions, mvars>>

CallCustomerAnalysis ==
    /\ pc = "input"
    /\ ret' = customer_analysis(transactions)
    /\ pc' = "ca_returned"
    /\ UNCHANGED <<transactions, args, mvars>>

CallDailySalesTrend ==
    /\ pc = "input"
    /\ ret' = daily_sales_trend(transactions)
    /\ pc' = "dst_returned"
    /\ UNCHANGED <<transactions, args, mvars>>

CallFindPeakSalesDay ==
    /\ pc = "input"
    /\ ret' = [peak |-> find_peak_sales_day(transactions)]
    /\ pc' = "fpsd_returned"
    /\ UNCHANGED <<transactions, args, mvars>>

NextAgg ==
    \/ CallCalculateTotalRevenue
    \/ CallRegionWiseSales
    \/ CallCalculateReportMetrics
    \/ \E n \in TopN : CallTopSellingProducts(n)
    \/ \E threshold \in Thresholds : CallLowPerformingProducts(threshold)
    \/ CallCustomerAnalysis
    \/ CallDailySalesTrend
    \/ CallFindPeakSalesDay

SpecAgg == InitAgg /\ [][NextAgg]_vars

(***************************************************************************)
(* Claims about the aggregations                                           *)
(***************************************************************************)
RECURSIVE FloatSum(_)
FloatSum(s) == IF s = <<>> THEN 0 ELSE FAdd(FloatSum(SubSeq(s, 1, Len(s) - 1)), s[Len(s)])

RECURSIVE IntSum(_)
IntSum(s) == IF s = <<>> THEN 0 ELSE Head(s) + IntSum(Tail(s))

AmountsOf(ts) == [i \in 1..Len(ts) |-> Amount(ts[i])]

ExactTotal(ts) == IntSum([i \in 1..Len(ts) |-> ts[i].Quantity * ts[i].UnitPrice])

\* every amount and every partial sum, in any order, is exactly
\* representable: no multiplication or addition rounds
NoRounding(ts) == ExactTotal(ts) <= Pow2(PREC)

C9_InRegion(ts, region) == SelectSeq(ts, LAMBDA t : t.Region = region)

C9_PerRegion ==
    /\ "regions" \in DOMAIN ret
    /\ {ret.regions[i].key : i \in 1..Len(ret.regions)}
          = {transactions[i].Region : i \in 1..Len(transactions)}
    /\ \A i, j \in 1..Len(ret.regions) :
          ret.regions[i].key = ret.regions[j].key => i = j
    /\ \A i \in 1..Len(ret.regions) :
          LET mine == C9_InRegion(transactions, ret.regions[i].key) IN
          /\ ret.regions[i].total_sales = FloatSum(AmountsOf(mine))
          /\ ret.regions[i].transaction_count = Len(mine)
    /\ IntSum([i \in 1..Len(ret.regions) |-> ret.regions[i].transaction_count])
          = Len(transactions)

C9_TotalsAgree ==
    FloatSum([i \in 1..Len(ret.regions) |-> ret.regions[i].total_sales])
        = calculate_total_revenue(transactions)

\* C9 as stated: for every non-empty list with positive amounts the
\* total_sales of the regions add up to calculate_total_revenue(transactions),
\* the transaction_counts add up to len(transactions), and each region's
\* total_sales is the sum of the amounts of exactly its transactions.
C9_AsStated ==
    (pc = "rws_returned" /\ transactions # <<>>) =>
        (C9_PerRegion /\ C9_TotalsAgree)

\* C9 amended: the counts add up to len(transactions); each region's
\* total_sales is the left-to-right floating-point sum of the amounts of
\* exactly its transactions; the regions' total_sales add up to
\* calculate_total_revenue(transactions) when no operation rounds.
C9_RegionTotals ==
    (pc = "rws_returned" /\ transactions # <<>>) =>
        (C9_PerRegion /\ (NoRounding(transactions) => C9_TotalsAgree))

C9_Witness ==
    /\ pc = "rws_returned"
    /\ Len(transactions) = 3
    /\ Len(ret.regions) >= 2
    /\ NoRounding(transactions)
    /\ \E i \in 1..Len(ret.regions) : ret.regions[i].transaction_count = 2

C10_Key(tx, field) ==
    IF field = "ProductID" THEN tx[field]
    ELSE IF tx[field] = None \/ tx[field] = <<>> THEN Unknown ELSE tx[field]

C10_Members(field, k) ==
    SelectSeq(transactions, LAMBDA t : C10_Key(t, field) = k)

C10_Keys(field) ==
    {C10_Key(transactions[i], field) : i \in 1..Len(transactions)}

C10_KeysOf(entries) == {entries[i].key : i \in 1..Len(entries)}

C10_Revenues(entries) == [i \in 1..Len(entries) |-> entries[i].revenue]

C10_Spent(entries) == [i \in 1..Len(entries) |-> entries[i].spent]

C10_Counts(entries) == [i \in 1..Len(entries) |-> entries[i].count]

C10_CountsAgree ==
    /\ ret.total_transactions = Len(transactions)
    /\ ret.total_transactions = IntSum(C10_Counts(ret.regions))
    /\ ret.total_transactions = IntSum(C10_Counts(ret.customers))
    /\ ret.total_transactions = IntSum(C10_Counts(ret.daily_sales))

C10_RevenuesAgree ==
    /\ ret.total_revenue = FloatSum(C10_Revenues(ret.regions))
    /\ ret.total_revenue = FloatSum(C10_Spent(ret.customers))
    /\ ret.total_revenue = FloatSum(C10_Revenues(ret.daily_sales))
    /\ ret.total_revenue = FloatSum(C10_Revenues(ret.products))

C10_PerGroup ==
    /\ ret.total_revenue = FloatSum(AmountsOf(transactions))
    /\ C10_KeysOf(ret.regions) = C10_Keys("Region")
    /\ C10_KeysOf(ret.customers) = C10_Keys("CustomerID")
    /\ C10_KeysOf(ret.daily_sales) = C10_Keys("Date")
    /\ C10_KeysOf(ret.products) = C10_Keys("ProductID")
    /\ \A i \in 1..Len(ret.regions) :
          LET mine == C10_Members("Region", ret.regions[i].key) IN
          /\ ret.regions[i].revenue = FloatSum(AmountsOf(mine))
          /\ ret.regions[i].count = Len(mine)
    /\ \A i \in 1..Len(ret.customers) :
          LET mine == C10_Members("CustomerID", ret.customers[i].key) IN
          /\ ret.customers[i].spent = FloatSum(AmountsOf(mine))
          /\ ret.customers[i].count = Len(mine)
    /\ \A i \in 1..Len(ret.daily_sales) :
          LET mine == C10_Members("Date", ret.daily_sales[i].key) IN
          /\ ret.daily_sales[i].revenue = FloatSum(AmountsOf(mine))
          /\ ret.daily_sales[i].count = Len(mine)
    /\ \A i \in 1..Len(ret.products) :
          LET mine == C10_Members("ProductID", ret.products[i].key) IN
          ret.products[i].revenue = FloatSum(AmountsOf(mine))

MaxRows == 2

MaxProducts == 3

Row(tid, pid, name, q, p, cid, region) ==
    Join(<<tid, Str("0", "1"), pid, name, q, p, cid, region>>, "|")

RawLines ==
    { Row(Str("T", "1"), Str("P", "1"), <<"L">>, <<"1">>, <<"1">>, Str("C", "1"), North),
      Row(Str("T", "2"), Str("P", "2"), <<"M">>, <<"2">>, <<"8">>, Str("C", "2"), South),
      Row(Str("X", "3"), Str("P", "1"), <<"L">>, <<"1">>, <<"8">>, Str("C", "1"), North),
      Row(Str("T", "4"), Str("Q", "1"), <<"L">>, <<"1">>, <<"1">>, Str("K", "1"), South),
      Row(Str("T", "5"), <<>>, <<"L">>, <<"1">>, <<"1">>, Str("C", "1"), North),
      Row(Str("T", "6"), Str("P", "1"), <<>>, <<"1">>, <<"1">>, Str("C", "1"), North),
      Row(Str("T", "7"), Str("P", "1"), <<"L">>, <<"x">>, <<"1">>, Str("C", "1"), North),
      Row(<<>>, Str("P", "1"), <<"L">>, <<"1">>, <<"1">>, Str("C", "1"), North),
      Row(Str("T", "9"), Str("P", "1"), <<"L">>, <<"1">>, <<"1">>, <<>>, North),
      Join(<<Str("T", "0"), Str("0", "1")>>, "|") }

SalesFiles ==
    { [exists |-> FALSE, readable |-> FALSE, lines |-> <<>>],
      [exists |-> TRUE, readable |-> FALSE, lines |-> <<>>] }
    \cup { [exists |-> TRUE, readable |-> TRUE, lines |-> l] :
              l \in SeqsUpTo(RawLines, MaxRows) }

ApiItems ==
    { JsonDict([id |-> Some(1), title |-> <<"i">>, category |-> <<"s">>,
                brand |-> <<"A">>, price |-> 5, rating |-> 4, stock |-> 9,
                discountPercentage |-> 1, sku |-> <<"k">>]),
      JsonDict([id |-> Some(2), title |-> <<"x">>]),
      JsonDict([title |-> <<"n">>]),
      JsonList(<<>>) }

ErrorResponses == {[kind |-> k] : k \in RequestErrors}

HttpResponse(status, is_json, data) ==
    [kind |-> "response", status_code |-> status, is_json |-> is_json,
     data |-> data]

Bodies(lists) ==
    { [is_json |-> FALSE, data |-> JsonList(<<>>)],
      [is_json |-> TRUE, data |-> JsonList(<<>>)],
      [is_json |-> TRUE, data |-> JsonDict([total |-> 0])] }
    \cup { [is_json |-> TRUE,
            data |-> JsonDict([products |-> l, total |-> Len(l)])] : l \in lists }

FetchResponses ==
    ErrorResponses
    \cup { HttpResponse(status, b.is_json, b.data) :
              status \in {200, 404}, b \in Bodies(SeqsUpTo(ApiItems, MaxProducts)) }

MainResponses ==
    { [kind |-> "Timeout"],
      HttpResponse(200, FALSE, JsonList(<<>>)) }
    \cup { HttpResponse(status, TRUE,
                        JsonDict([products |-> l, total |-> Len(l)])) :
              status \in {200, 500},
              l \in {s \in SeqsUpTo(ApiItems, 2) :
                        /\ s # <<>>
                        /\ \A i \in 1..Len(s) : IsDict(s[i])
                        /\ Len(s) = 2 => (s[1].dict.title = <<"i">>
                                          /\ s[2].dict.title = <<"x">>)} }

RegionInputs == {<<>>, <<"N", " ">>}

AmountInputs ==
    { <<<<>>, <<>>>>, <<<<"2">>, <<"8">>>>, <<<<"x">>, <<"8">>>>, <<<<>>, <<"8">>>> }

Init ==
    /\ pc = "start"
    /\ transactions = <<>>
    /\ args = NoArgs
    /\ ret = NoRet
    /\ MainIdle

Next ==
    \/ \E file \in SalesFiles : MainRead(file)
    \/ \E choice \in {"y", "n"}, region_input \in RegionInputs,
          amounts \in AmountInputs :
          MainFilter(choice, region_input, amounts[1], amounts[2])
    \/ MainValidate
    \/ \E resp \in MainResponses : MainFetch(resp)
    \/ MainMapping
    \/ MainEnrich
    \/ \E txt_io_ok \in BOOLEAN, json_io_ok \in BOOLEAN :
          MainSave(txt_io_ok, json_io_ok)
    \/ \E io_ok \in BOOLEAN : MainReport(io_ok)
    \/ MainComplete
    \/ MainInterrupt
    \/ MainError

Spec == Init /\ [][Next]_vars

(***************************************************************************)
(* fetch_all_products on every kind of response                            *)
(***************************************************************************)
InitFetch ==
    /\ pc = "fetch_call"
    /\ transactions = <<>>
    /\ args = NoArgs
    /\ ret = NoRet
    /\ sales_file = [none |-> TRUE]
    /\ raw_transactions = <<>>
    /\ filters = [none |-> TRUE]
    /\ valid_transactions = <<>>
    /\ invalid_count = 0
    /\ response \in FetchResponses
    /\ api_products = <<>>
    /\ product_mapping = <<>>
    /\ enriched_transactions = <<>>
    /\ files = {}
    /\ steps = <<>>
    /\ failures = {}
    /\ result = "running"
    /\ exit_code = Nothing

CallFetchAllProducts ==
    /\ pc = "fetch_call"
    /\ api_products' = fetch_all_products(response)
    /\ pc' = "fetch_returned"
    /\ UNCHANGED <<fvars, sales_file, raw_transactions, filters,
                   valid_transactions, invalid_count, response,
                   product_mapping, enriched_transactions, files, steps,
                   failures, result, exit_code>>

NextFetch == CallFetchAllProducts

SpecFetch == InitFetch /\ [][NextFetch]_vars

(***************************************************************************)
(* Claims about fetch_all_products                                         *)
(***************************************************************************)
C6_Products(resp) ==
    IF resp.kind = "response" /\ resp.is_json /\ IsDict(resp.data)
       /\ "products" \in DOMAIN resp.data.dict
    THEN resp.data.dict.products
    ELSE <<>>

C6_Failed(resp) ==
    \/ resp.kind \in {"Timeout", "ConnectionError", "HTTPError", "RequestException"}
    \/ resp.status_code # 200
    \/ ~resp.is_json
    \/ C6_Products(resp) = <<>>

\* C6: fetch_all_products returns an empty list on every failure (request
\* error, non-200 status, unparsable JSON, no products) and never lets an
\* exception out; a non-empty result means status 200 and at least one
\* product, with one output product per response product, in order.
C6_FetchNeverRaises ==
    pc = "fetch_returned" =>
        /\ C6_Failed(response) => api_products = <<>>
        /\ api_products # <<>> =>
              /\ response.kind = "response"
              /\ response.status_code = 200
              /\ C6_Products(response) # <<>>
              /\ Len(api_products) = Len(C6_Products(response))
              /\ \A i \in 1..Len(api_products) :
                    /\ IsDict(C6_Products(response)[i])
                    /\ api_products[i].id =
                          Get(C6_Products(response)[i].dict, "id", Nothing)
                    /\ api_products[i].title =
                          Get(C6_Products(response)[i].dict, "title", NA)

C6_Witness ==
    /\ pc = "fetch_returned"
    /\ response.kind = "response"
    /\ response.status_code # 200
    /\ Len(C6_Products(response)) >= 2
    /\ api_products = <<>>

(***************************************************************************)
(* Claims about the main workflow                                          *)
(***************************************************************************)
C4_WellFormed(t) ==
    /\ t.Quantity > 0
    /\ t.UnitPrice > 0
    /\ StartsWith(t.TransactionID, "T")
    /\ StartsWith(t.ProductID, "P")
    /\ StartsWith(t.CustomerID, "C")

\* C4 as stated: every transaction that passes main's validation step and
\* reaches enrichment, the saved files and the report has Quantity > 0,
\* UnitPrice > 0, a TransactionID starting with 'T', a ProductID starting
\* with 'P' and a CustomerID starting with 'C'.
C4_AsStated ==
    /\ \A i \in 1..Len(valid_transactions) :
          C4_WellFormed(valid_transactions[i])
    /\ \A i \in 1..Len(enriched_transactions) :
          C4_WellFormed(enriched_transactions[i])

C5_Selected(t) ==
    /\ "region" \in DOMAIN filters => t.Region = filters.region
    /\ "min_amount" \in DOMAIN filters => Amount(t) >= filters.min_amount
    /\ "max_amount" \in DOMAIN filters => Amount(t) <= filters.max_amount

\* C5 as stated: when the user answers 'y' and enters a region and/or
\* amount bounds, every transaction then validated, enriched, saved and
\* reported has that Region and an amount within the bounds.
C5_AsStated ==
    /\ \A i \in 1..Len(valid_transactions) :
          C5_Selected(valid_transactions[i])
    /\ \A i \in 1..Len(enriched_transactions) :
          C5_Selected(enriched_transactions[i])

C7_StepOrder ==
    <<"read", "filter", "validate", "fetch", "mapping", "enrich", "save",
      "report", "complete">>

C7_FailedStep(f) ==
    CASE f \in {"missing_file", "empty_parse"} -> "read"
      [] f = "no_valid" -> "validate"
      [] f = "fetch_failed" -> "fetch"
      [] f = "empty_mapping" -> "mapping"
      [] f = "empty_enrichment" -> "enrich"
      [] f = "save_failed" -> "save"
      [] f = "report_failed" -> "report"

C7_InOrder ==
    /\ Len(steps) <= Len(C7_StepOrder)
    /\ steps = SubSeq(C7_StepOrder, 1, Len(steps))

\* C7 as stated: the steps run strictly in the order read/parse, validate,
\* fetch, mapping, enrich, save, report, and a failed step aborts the run;
\* when the fetch fails no mapping, enrichment, save or report is performed
\* and main returns False.
C7_AsStated ==
    /\ C7_InOrder
    /\ \A f \in failures \ {"interrupt", "exception"} :
          /\ steps[Len(steps)] = C7_FailedStep(f)
          /\ pc = "exited"
          /\ result = "False"
    /\ "fetch_failed" \in failures =>
          /\ product_mapping = <<>>
          /\ enriched_transactions = <<>>
          /\ files = {}
          /\ result = "False"

C8_Failures ==
    {"missing_file", "empty_parse", "no_valid", "fetch_failed",
     "empty_mapping", "empty_enrichment", "report_failed", "exception",
     "interrupt"}

\* C8: main never lets an error out: on a missing file, empty parse, no
\* valid transaction, fetch failure, empty mapping, empty enrichment, report
\* failure, any raised exception or a keyboard interrupt it returns False
\* and the process exits with 1; it returns True (exit 0) only after the
\* report generation returned success.
C8_NeverCrashes ==
    pc = "exited" =>
        /\ result \in {"True", "False"}
        /\ failures \cap C8_Failures # {} => result = "False"
        /\ result = "False" => exit_code = Some(1)
        /\ result = "True" =>
              /\ exit_code = Some(0)
              /\ "report" \in files
              /\ steps = C7_StepOrder

C8_Witness ==
    /\ pc = "exited"
    /\ "exception" \in failures
    /\ Len(steps) > 0
    /\ steps[Len(steps)] = "save"
    /\ result = "False"
    /\ exit_code = Some(1)

(***************************************************************************)
(* Claims about the order of region_wise_sales                             *)
(***************************************************************************)
C11_FirstIndex(region) ==
    CHOOSE i \in 1..Len(transactions) :
        /\ transactions[i].Region = region
        /\ \A j \in 1..(i - 1) : transactions[j].Region # region

\* C11: region_wise_sales returns its regions in non-increasing order of
\* total_sales, and regions with equal total_sales stay in the order in
\* which they first occur in the input.
C11_SortedStable ==
    (pc = "rws_returned" /\ "regions" \in DOMAIN ret) =>
        \A i, j \in 1..Len(ret.regions) :
            i < j =>
                /\ ret.regions[i].total_sales >= ret.regions[j].total_sales
                /\ ret.regions[i].total_sales = ret.regions[j].total_sales
                      => C11_FirstIndex(ret.regions[i].key)
                            < C11_FirstIndex(ret.regions[j].key)

\* a tie between two regions, and a region moved ahead of an earlier one
C11_Witness ==
    /\ pc = "rws_returned"
    /\ "regions" \in DOMAIN ret
    /\ \E i, j \in 1..Len(ret.regions) :
          /\ i < j
          /\ ret.regions[i].total_sales = ret.regions[j].total_sales
    /\ \E i, j \in 1..Len(ret.regions) :
          /\ i < j
          /\ C11_FirstIndex(ret.regions[i].key)
                > C11_FirstIndex(ret.regions[j].key)

(***************************************************************************)
(* Claims about top_selling_products and low_performing_products           *)
(***************************************************************************)
C12_Names == {transactions[i].ProductName : i \in 1..Len(transactions)}

C12_Of(name) == SelectSeq(transactions, LAMBDA t : t.ProductName = name)

C12_Quantity(name) ==
    IntSum([i \in 1..Len(C12_Of(name)) |-> C12_Of(name)[i].Quantity])

\* every tuple is a product of the input with its summed quantity and revenue
C12_Tuples(products) ==
    /\ \A i \in 1..Len(products) :
          /\ products[i][1] \in C12_Names
          /\ products[i][2] = C12_Quantity(products[i][1])
          /\ products[i][3] = FloatSum(AmountsOf(C12_Of(products[i][1])))
    /\ \A i, j \in 1..Len(products) :
          products[i][1] = products[j][1] => i = j

\* C12 as stated: for every integer n, negative n included,
\* top_selling_products(transactions, n) has min(max(n, 0), number of
\* distinct ProductNames) entries in non-increasing order of total quantity,
\* no product left out has a strictly larger total quantity than one
\* included, and each entry carries the sums over its product's transactions.
C12_AsStated ==
    pc = "tsp_returned" =>
        LET products == ret.products
            n == IF args.n > 0 THEN args.n ELSE 0
            distinct == Cardinality(C12_Names)
        IN  /\ Len(products) = IF n < distinct THEN n ELSE distinct
            /\ C12_Tuples(products)
            /\ \A i, j \in 1..Len(products) :
                  i < j => products[i][2] >= products[j][2]
            /\ \A name \in C12_Names \ {products[i][1] : i \in 1..Len(products)} :
                  \A i \in 1..Len(products) :
                      C12_Quantity(name) <= products[i][2]

\* C13: low_performing_products(transactions, threshold) returns exactly the
\* products whose total quantity over all their transactions is strictly
\* below threshold, in non-decreasing order of total quantity, each with
\* its total quantity and total revenue.
C13_ExactlyBelowThreshold ==
    pc = "lpp_returned" =>
        LET products == ret.products IN
        /\ C12_Tuples(products)
        /\ {products[i][1] : i \in 1..Len(products)}
              = {name \in C12_Names : C12_Quantity(name) < args.threshold}
        /\ \A i, j \in 1..Len(products) :
              i < j => products[i][2] <= products[j][2]

\* a product left out whose quantity equals the threshold, two kept ones
C13_Witness ==
    /\ pc = "lpp_returned"
    /\ Len(ret.products) >= 2
    /\ \E name \in C12_Names : C12_Quantity(name) = args.threshold

(***************************************************************************)
(* The two enrichment functions on product codes and mappings              *)
(***************************************************************************)
ProductCodes ==
    { Str("P", "0"), Str("P", "1"), Str("P", "2"), <<"P", "0", "1">>,
      Str("Q", "1"), <<"P">>, Str("P", "x"), <<>> }

EnrichTx ==
    { Tx(Str("T", "1"), pid, 1, 8, Str("C", "1"), North) : pid \in ProductCodes }

EnrichProducts ==
    { [id |-> Some(0), title |-> <<"z">>, category |-> <<"a">>,
       brand |-> <<"A">>, price |-> 5, rating |-> 4, stock |-> 9,
       discount |-> 1, sku |-> <<"k">>],
      [id |-> Some(1), title |-> <<"i">>, category |-> <<"b">>,
       brand |-> <<"B">>, price |-> 6, rating |-> 3, stock |-> 0,
       discount |-> 0, sku |-> <<"l">>],
      [id |-> Some(2), title |-> <<"x">>, category |-> NA,
       brand |-> UnknownBrand, price |-> 0, rating |-> 0, stock |-> 0,
       discount |-> 0, sku |-> NA] }

InitEnrich ==
    /\ pc = "enrich_call"
    /\ transactions \in SeqsUpTo(EnrichTx, MaxRows)
    /\ args = NoArgs
    /\ ret = NoRet
    /\ sales_file = [none |-> TRUE]
    /\ raw_transactions = <<>>
    /\ filters = [none |-> TRUE]
    /\ valid_transactions = <<>>
    /\ invalid_count = 0
    /\ response = [none |-> TRUE]
    /\ api_products \in SeqsUpTo(EnrichProducts, MaxProducts)
    /\ product_mapping = create_product_mapping(api_products)
    /\ enriched_transactions = <<>>
    /\ files = {}
    /\ steps = <<>>
    /\ failures = {}
    /\ result = "running"
    /\ exit_code = Nothing

CallEnrichSalesData ==
    /\ pc = "enrich_call"
    /\ enriched_transactions' = enrich_sales_data(transactions, product_mapping)
    /\ pc' = "esd_returned"
    /\ UNCHANGED <<fvars, sales_file, raw_transactions, filters,
                   valid_transactions, invalid_count, response, api_products,
                   product_mapping, files, steps, failures, result, exit_code>>

\* main calls it with a non-empty list only (main.py:197-199)
CallEnrichWithApiMapping ==
    /\ pc = "enrich_call"
    /\ transactions # <<>>
    /\ enriched_transactions' =
          enrich_with_api_mapping(transactions, product_mapping)
    /\ pc' = "ewm_returned"
    /\ UNCHANGED <<fvars, sales_file, raw_transactions, filters,
                   valid_transactions, invalid_count, response, api_products,
                   product_mapping, files, steps, failures, result, exit_code>>

NextEnrich ==
    \/ CallEnrichSalesData
    \/ CallEnrichWithApiMapping

SpecEnrich == InitEnrich /\ [][NextEnrich]_vars

(***************************************************************************)
(* Claims about the enrichment                                             *)
(***************************************************************************)
\* 'P' followed by a decimal numeral
C14_IsProductCode(pid) == StartsWith(pid, "P") /\ IsNumeral(Tail(pid))

C14_Unmatched(e) ==
    /\ e.API_Match = FALSE
    /\ e.API_Category = None
    /\ e.API_Brand = None
    /\ e.API_Rating = Nothing
    /\ e.API_Price = Nothing
    /\ e.API_Stock = Nothing
    /\ e.API_Discount = Nothing

C14_Matched(e, info) ==
    /\ e.API_Match = TRUE
    /\ e.API_Category = info.category
    /\ e.API_Brand = info.brand
    /\ e.API_Rating = Some(info.rating)
    /\ e.API_Price = Some(info.price)
    /\ e.API_Stock = Some(info.stock)
    /\ e.API_Discount = Some(info.discount)

\* C14 as stated: a transaction whose ProductID is 'P' followed by the
\* decimal form of k is enriched with API_Match = True and the fields of
\* product_mapping[k] if k is a key of the mapping, and otherwise with
\* API_Match = False and the six API fields None; any other ProductID
\* gives API_Match = False.
C14_AsStated ==
    (/\ pc \in {"esd_returned", "ewm_returned"}
     /\ Len(enriched_transactions) = Len(transactions)) =>
        \A i \in 1..Len(transactions) :
            LET pid == transactions[i].ProductID
                e == enriched_transactions[i]
                k == NumeralValue(Tail(pid))
            IN  IF C14_IsProductCode(pid)
                   /\ KeyIndex(product_mapping, k) # 0
                THEN C14_Matched(e, product_mapping[KeyIndex(product_mapping, k)])
                ELSE C14_Unmatched(e)

(***************************************************************************)
(* read_sales_data on files, parse_transactions on lines                   *)
(***************************************************************************)
MaxChars == 5

FileChars == {"h", "a", " ", "\n"}

ReadFiles ==
    { [exists |-> FALSE, readable |-> FALSE, utf8 |-> TRUE, content |-> <<>>],
      [exists |-> TRUE, readable |-> FALSE, utf8 |-> TRUE, content |-> <<>>] }
    \cup { [exists |-> TRUE, readable |-> TRUE, utf8 |-> u, content |-> c] :
              u \in BOOLEAN, c \in SeqsUpTo(FileChars, MaxChars) }

InitRead ==
    /\ pc = "read_call"
    /\ sales_file \in ReadFiles
    /\ transactions = <<>>
    /\ args = NoArgs
    /\ ret = NoRet
    /\ raw_transactions = <<>>
    /\ filters = [none |-> TRUE]
    /\ valid_transactions = <<>>
    /\ invalid_count = 0
    /\ response = [none |-> TRUE]
    /\ api_products = <<>>
    /\ product_mapping = <<>>
    /\ enriched_transactions = <<>>
    /\ files = {}
    /\ steps = <<>>
    /\ failures = {}
    /\ result = "running"
    /\ exit_code = Nothing

CallReadSalesData ==
    /\ pc = "read_call"
    /\ ret' = read_sales_data(sales_file)
    /\ pc' = "rsd_returned"
    /\ UNCHANGED <<transactions, args, mvars>>

NextRead == CallReadSalesData

SpecRead == InitRead /\ [][NextRead]_vars

Line(tid, name, quantity, price, region) ==
    Join(<<tid, Str("0", "1"), Str("P", "1"), name, quantity, price,
           Str("C", "1"), region>>, "|")

ParseInputLines ==
    { Line(Str("T", "1"), <<"L">>, <<"1">>, <<"8">>, <<"N">>),
      Line(<<" ", "T", "2">>, <<"L", ",", "M">>, <<"1", ",", "0">>,
           <<"2", ".", "5", "0">>, <<"N", " ">>),
      Line(Str("T", "3"), <<"L", " ", ",">>, <<"2">>, <<"8">>, <<"N">>),
      Line(Str("T", "4"), <<"L">>, <<"x">>, <<"8">>, <<"N">>),
      Line(Str("T", "5"), <<"L">>, <<"1", ".", "5">>, <<"8">>, <<"N">>),
      Line(Str("T", "6"), <<"L">>, <<"+", "2">>, <<".", "5">>, <<"N">>),
      Line(Str("T", "7"), <<"L">>, <<"-", "1">>,
           <<"-", "0", ".", "2", "5">>, <<"N">>),
      Line(Str("T", "8"), <<"L">>, <<"1">>, <<>>, <<"N">>),
      Line(Str("T", "9"), <<"L">>, <<" ", ",", "1">>,
           <<"1", ",", "0", ".", "0">>, <<"N">>),
      Join(<<Str("T", "1"), Str("0", "1"), Str("P", "1"), <<"L">>, <<"1">>,
             <<"8">>, Str("C", "1")>>, "|"),
      Line(Str("T", "1"), <<"L">>, <<"1">>, <<"8">>, <<"N", "|", "x">>),
      <<>> }

InitParse ==
    /\ pc = "parse_call"
    /\ args \in {[raw_lines |-> l] : l \in SeqsUpTo(ParseInputLines, MaxRows)}
    /\ transactions = <<>>
    /\ ret = NoRet
    /\ MainIdle

CallParseTransactions ==
    /\ pc = "parse_call"
    /\ transactions' = parse_transactions(args.raw_lines)
    /\ pc' = "pt_returned"
    /\ UNCHANGED <<args, ret, mvars>>

\* the parsed records written back as rows, and the rows parsed again
WriteAndParseAgain ==
    /\ pc = "pt_returned"
    /\ ret' = [lines |-> [i \in 1..Len(transactions) |->
                              WriteRow(transactions[i])],
               records |-> parse_transactions(
                              [i \in 1..Len(transactions) |->
                                  WriteRow(transactions[i])])]
    /\ pc' = "reparsed"
    /\ UNCHANGED <<transactions, args, mvars>>

NextParse ==
    \/ CallParseTransactions
    \/ WriteAndParseAgain

SpecParse == InitParse /\ [][NextParse]_vars

(***************************************************************************)
(* Claims about parse_transactions and read_sales_data                     *)
(***************************************************************************)
\* exactly 8 fields, and the two numeric fields convert once commas are gone
C15_Yields(line) ==
    LET fields == Split(line, "|")
    IN  /\ Len(fields) = 8
        /\ IsInt(RemoveCommas(fields[5]))
        /\ IsFloat(RemoveCommas(fields[6]))

RECURSIVE C15_Concat(_)
C15_Concat(ss) == IF ss = <<>> THEN <<>> ELSE Head(ss) \o C15_Concat(Tail(ss))

\* C15: parse_transactions skips malformed rows: a line yields a record iff
\* it splits on '|' into exactly 8 fields whose Quantity and UnitPrice
\* (commas removed) convert to int and float; other lines are dropped
\* without affecting the rest, and the records keep the order of the lines.
C15_SkipsMalformed ==
    pc = "pt_returned" =>
        LET raw_lines == args.raw_lines IN
        /\ \A i \in 1..Len(raw_lines) :
              Len(parse_transactions(<<raw_lines[i]>>))
                 = IF C15_Yields(raw_lines[i]) THEN 1 ELSE 0
        /\ transactions
              = C15_Concat([i \in 1..Len(raw_lines) |->
                               parse_transactions(<<raw_lines[i]>>)])
        /\ Len(transactions)
              = Cardinality({i \in 1..Len(raw_lines) : C15_Yields(raw_lines[i])})

\* a malformed line dropped between or beside a line that yields a record
C15_Witness ==
    /\ pc = "pt_returned"
    /\ Len(args.raw_lines) = 2
    /\ Len(transactions) = 1
    /\ ~C15_Yields(args.raw_lines[1])
    /\ args.raw_lines[1] # <<>>

\* C16 as stated: for every list of well-formed lines, the records of
\* parse_transactions written back as pipe-delimited rows in the 8-column
\* order parse again to the same list of records.
C16_AsStated ==
    (/\ pc = "reparsed"
     /\ \A i \in 1..Len(args.raw_lines) : C15_Yields(args.raw_lines[i])) =>
        ret.records = transactions

\* the first (header) line, as text
C17_Pieces == Split(sales_file.content, "\n")

C17_Expected ==
    SelectSeq([i \in 1..(Len(C17_Pieces) - 1) |-> Strip(C17_Pieces[i + 1])],
              LAMBDA l : l # <<>>)

\* C17: read_sales_data returns exactly the lines after the first (header)
\* line that are non-empty once stripped, each stripped, in file order; no
\* blank line is in the result; a missing file raises FileNotFoundError.
C17_DataLines ==
    pc = "rsd_returned" =>
        /\ ~sales_file.exists => ret = [raised |-> "FileNotFoundError"]
        /\ (sales_file.exists /\ sales_file.readable) =>
              /\ "lines" \in DOMAIN ret
              /\ ret.lines = C17_Expected
              /\ \A i \in 1..Len(ret.lines) :
                    /\ ret.lines[i] # <<>>
                    /\ ret.lines[i] = Strip(ret.lines[i])

\* a header, a blank line and a padded data line, read as latin-1
C17_Witness ==
    /\ pc = "rsd_returned"
    /\ sales_file.exists /\ sales_file.readable /\ ~sales_file.utf8
    /\ sales_file.content = <<"h", "\n", "\n", " ", "a">>
    /\ ret = [lines |-> << <<"a">> >>]

(***************************************************************************)
(* generate_sales_report on lists of transactions                          *)
(***************************************************************************)
ReportIO == {"ok", "open_fails", "write_fails"}

InitReport ==
    /\ pc = "report_call"
    /\ transactions \in SeqsUpTo(SalesTx, MaxTx)
    /\ enriched_transactions
          \in {<<>>, enrich_with_api_mapping(transactions, SampleMapping)}
    /\ args = NoArgs
    /\ ret = NoRet
    /\ sales_file = [none |-> TRUE]
    /\ raw_transactions = <<>>
    /\ filters = [none |-> TRUE]
    /\ valid_transactions = <<>>
    /\ invalid_count = 0
    /\ response = [none |-> TRUE]
    /\ api_products = <<>>
    /\ product_mapping = SampleMapping
    /\ files = {}
    /\ steps = <<>>
    /\ failures = {}
    /\ result = "running"
    /\ exit_code = Nothing

CallGenerateSalesReport(io) ==
    /\ pc = "report_call"
    /\ args' = [io |-> io]
    /\ ret' = [returned |-> generate_sales_report(transactions,
                                                  enriched_transactions,
                                                  io = "ok")]
    /\ files' = ReportFile(transactions, enriched_transactions, io)
    /\ pc' = "gsr_returned"
    /\ UNCHANGED <<transactions, sales_file, raw_transactions, filters,
                   valid_transactions, invalid_count, response, api_products,
                   product_mapping, enriched_transactions, steps, failures,
                   result, exit_code>>

NextReport == \E io \in ReportIO : CallGenerateSalesReport(io)

SpecReport == InitReport /\ [][NextReport]_vars

(***************************************************************************)
(* Claims about generate_sales_report                                      *)
(***************************************************************************)
\* C18: generate_sales_report returns False and writes no report file when
\* either list is empty; it never propagates an exception: an error while
\* computing or writing the report yields False; it returns True only after
\* the report file was written.
C18_ReportOutcome ==
    pc = "gsr_returned" =>
        /\ ret.returned \in BOOLEAN
        /\ (transactions = <<>> \/ enriched_transactions = <<>>) =>
              (ret.returned = FALSE /\ files = {})
        /\ (\/ args.io # "ok"
            \/ EnrichmentSummaryRaises(enriched_transactions)
            \/ TopProductsRaises(
                  calculate_report_metrics(transactions,
                                           enriched_transactions)))
              => ret.returned = FALSE
        /\ ret.returned = TRUE => files = {"report"}

\* an error while the report is computed, on two non-empty lists
C18_Witness ==
    /\ pc = "gsr_returned"
    /\ transactions # <<>>
    /\ enriched_transactions # <<>>
    /\ TopProductsRaises(calculate_report_metrics(transactions,
                                                  enriched_transactions))
    /\ ret.returned = FALSE
    /\ files = {}

(***************************************************************************)
(* Claims about customer_analysis and daily_sales_trend                    *)
(***************************************************************************)
C19_Of(customer_id) ==
    SelectSeq(transactions, LAMBDA t : t.CustomerID = customer_id)

\* C19: customer_analysis returns one entry per distinct CustomerID in
\* non-increasing order of total_spent; total_spent is the sum of the
\* amounts of the customer's transactions, purchase_count their number (the
\* counts add up to len(transactions)), and products_bought lists each
\* product name the customer bought exactly once, in ascending order.
C19_CustomerEntries ==
    (pc = "ca_returned" /\ "customers" \in DOMAIN ret) =>
        LET customers == ret.customers IN
        /\ {customers[i].key : i \in 1..Len(customers)}
              = {transactions[i].CustomerID : i \in 1..Len(transactions)}
        /\ \A i, j \in 1..Len(customers) :
              /\ customers[i].key = customers[j].key => i = j
              /\ i < j => customers[i].total_spent >= customers[j].total_spent
        /\ \A i \in 1..Len(customers) :
              LET mine == C19_Of(customers[i].key)
                  bought == customers[i].products_bought
              IN  /\ customers[i].total_spent = FloatSum(AmountsOf(mine))
                  /\ customers[i].purchase_count = Len(mine)
                  /\ {bought[k] : k \in 1..Len(bought)}
                        = {mine[k].ProductName : k \in 1..Len(mine)}
                  /\ \A a, b \in 1..Len(bought) :
                        a < b => StrLess(bought[a], bought[b])
        /\ IntSum([i \in 1..Len(customers) |-> customers[i].purchase_count])
              = Len(transactions)

\* the later customer spent more and bought two products
C19_Witness ==
    /\ pc = "ca_returned"
    /\ "customers" \in DOMAIN ret
    /\ Len(ret.customers) = 2
    /\ ret.customers[1].key # transactions[1].CustomerID
    /\ Len(ret.customers[1].products_bought) = 2

C20_On(date) == SelectSeq(transactions, LAMBDA t : t.Date = date)

\* C20: daily_sales_trend returns one entry per distinct Date in ascending
\* date order; transaction_count is the number of transactions of the date,
\* revenue their summed amount and unique_customers the number of distinct
\* CustomerIDs of the date, so 1 <= unique_customers <= transaction_count
\* and the transaction_counts add up to len(transactions).
C20_DailyEntries ==
    (pc = "dst_returned" /\ "days" \in DOMAIN ret) =>
        LET days == ret.days IN
        /\ {days[i].key : i \in 1..Len(days)}
              = {transactions[i].Date : i \in 1..Len(transactions)}
        /\ \A i, j \in 1..Len(days) : i < j => StrLess(days[i].key, days[j].key)
        /\ \A i \in 1..Len(days) :
              LET mine == C20_On(days[i].key) IN
              /\ days[i].transaction_count = Len(mine)
              /\ days[i].revenue = FloatSum(AmountsOf(mine))
              /\ days[i].unique_customers
                    = Cardinality({mine[k].CustomerID : k \in 1..Len(mine)})
              /\ 1 <= days[i].unique_customers
              /\ days[i].unique_customers <= days[i].transaction_count
        /\ IntSum([i \in 1..Len(days) |-> days[i].transaction_count])
              = Len(transactions)

\* the later date comes first in the input; a date with two customers
C20_Witness ==
    /\ pc = "dst_returned"
    /\ "days" \in DOMAIN ret
    /\ Len(ret.days) = 2
    /\ ret.days[2].key = transactions[1].Date
    /\ ret.days[1].unique_customers = 2

(***************************************************************************)
(* Claims about find_peak_sales_day                                        *)
(***************************************************************************)
C21_FirstIndex(date) ==
    CHOOSE i \in 1..Len(transactions) :
        /\ transactions[i].Date = date
        /\ \A j \in 1..(i - 1) : transactions[j].Date # date

\* C21: for a non-empty input find_peak_sales_day returns the (date,
\* revenue, transaction_count) of an entry of daily_sales_trend whose
\* revenue is at least that of every other date, and among the dates tied
\* for the maximum the one that occurs first in the input; for an empty
\* input it returns None.
C21_PeakDay ==
    pc = "fpsd_returned" =>
        /\ transactions = <<>> => ret.peak = None
        /\ (/\ transactions # <<>>
            /\ "days" \in DOMAIN daily_sales_trend(transactions)) =>
              LET days == daily_sales_trend(transactions).days
                  peak == ret.peak
              IN  /\ \E i \in 1..Len(days) :
                        /\ days[i].key = peak[1]
                        /\ days[i].revenue = peak[2]
                        /\ days[i].transaction_count = peak[3]
                  /\ \A i \in 1..Len(days) :
                        /\ days[i].revenue <= peak[2]
                        /\ (days[i].revenue = peak[2] /\ days[i].key # peak[1])
                              => C21_FirstIndex(peak[1])
                                    < C21_FirstIndex(days[i].key)

\* two dates tied for the maximum, the later date first in the input
C21_Witness ==
    /\ pc = "fpsd_returned"
    /\ Len(transactions) >= 2
    /\ "days" \in DOMAIN daily_sales_trend(transactions)
    /\ Len(daily_sales_trend(transactions).days) = 2
    /\ daily_sales_trend(transactions).days[1].revenue
          = daily_sales_trend(transactions).days[2].revenue
    /\ ret.peak[1] = daily_sales_trend(transactions).days[2].key
    /\ ret.peak[1] = transactions[1].Date

\* C22 as stated: whenever main returns True, the enriched text file, the
\* enriched JSON file and the sales report file were all written during
\* that run.
C22_AsStated ==
    (pc = "exited" /\ result = "True") =>
        {"txt", "json", "report"} \subseteq files

\* C23 as stated: enrich_with_api_mapping returns exactly one enriched
\* record per transaction that came out of validate_sales_transactions, in
\* input order, also for records whose ProductID is None, so in main the
\* enriched count equals the valid count.
C23_AsStated ==
    (\E k \in 1..Len(steps) : steps[k] = "enrich") =>
        /\ Len(enriched_transactions) = Len(valid_transactions)
        /\ \A i \in 1..Len(valid_transactions) :
              \A col \in DOMAIN valid_transactions[i] :
                  enriched_transactions[i][col] = valid_transactions[i][col]

(***************************************************************************)
(* The cleaning scripts run by hand on the files they name                 *)
(* files maps the name of each file that exists to its lines.              *)
(***************************************************************************)
CleanRow(tid, quantity, price, cid, region) ==
    Join(<<tid, Str("0", "1"), Str("P", "1"), <<"L">>, quantity, price,
           cid, region>>, "|")

CleanInputLines ==
    { CleanRow(Str("T", "1"), <<"1">>, <<"8">>, Str("C", "1"), <<"N">>),
      CleanRow(<<" ", "T", "2">>, <<" ", "2">>, <<"1", ",", "0">>,
               Str("C", "2"), <<"S", " ">>),
      CleanRow(Str("X", "3"), <<"1">>, <<"8">>, Str("C", "1"), <<"N">>),
      CleanRow(Str("T", "4"), <<"0">>, <<"8">>, Str("C", "1"), <<"N">>),
      CleanRow(Str("T", "5"), <<"-", "1">>, <<"8">>, Str("C", "1"), <<"N">>),
      CleanRow(Str("T", "6"), <<"1", ",", "0">>, <<"8">>, Str("C", "1"), <<"N">>),
      CleanRow(Str("T", "7"), <<"1">>, <<"-", "8">>, Str("C", "1"), <<"N">>),
      CleanRow(Str("T", "8"), <<"1">>, <<"0", ".", "0">>, Str("C", "1"), <<"N">>),
      CleanRow(Str("T", "9"), <<"1">>, <<"x">>, Str("C", "1"), <<"N">>),
      CleanRow(Str("T", "1"), <<"1">>, <<"8">>, <<>>, <<"N">>),
      CleanRow(Str("T", "1"), <<"1">>, <<"8">>, Str("C", "1"), <<" ">>),
      CleanRow(Str("T", "1"), <<"1">>, <<"8">>, Str("C", "1"), <<"N", "|", "x">>),
      Join(<<Str("T", "1"), Str("0", "1"), Str("P", "1"), <<"L">>, <<"1">>,
             <<"8">>, Str("C", "1")>>, "|"),
      <<"|", "|">>,
      <<>> }

CleanInputs ==
    {<<>>} \cup { <<Join([i \in 1..Len(header) |-> <<header[i]>>], "|")>> \o l :
                   l \in SeqsUpTo(CleanInputLines, MaxRows) }

InitClean ==
    /\ pc = "shell"
    /\ files \in { ("sales_data_pipe_delimited.txt" :> input) :
                      input \in CleanInputs }
    /\ transactions = <<>>
    /\ args = NoArgs
    /\ ret = NoRet
    /\ sales_file = [none |-> TRUE]
    /\ raw_transactions = <<>>
    /\ filters = [none |-> TRUE]
    /\ valid_transactions = <<>>
    /\ invalid_count = 0
    /\ response = [none |-> TRUE]
    /\ api_products = <<>>
    /\ product_mapping = <<>>
    /\ enriched_transactions = <<>>
    /\ steps = <<>>
    /\ failures = {}
    /\ result = "running"
    /\ exit_code = Nothing

\* a script whose input file is missing, or which raises before it writes,
\* leaves the files as they are
RunScript(written) ==
    /\ pc = "shell"
    /\ files' = written @@ files
    /\ UNCHANGED <<pc, transactions, args, ret, sales_file, raw_transactions,
                   filters, valid_transactions, invalid_count, response,
                   api_products, product_mapping, enriched_transactions,
                   steps, failures, result, exit_code>>

RunRemoveIncompleteRows ==
    /\ "sales_data_pipe_delimited.txt" \in DOMAIN files
    /\ RunScript("sales_data_clean.txt" :>
          remove_incomplete_rows(files["sales_data_pipe_delimited.txt"]).output)

RunRemoveZeroQuantity ==
    /\ "sales_data_clean.txt" \in DOMAIN files
    /\ LET done == remove_zero_quantity(files["sales_data_clean.txt"])
       IN  /\ "output" \in DOMAIN done
           /\ RunScript(("sales_data_final.txt" :> done.output)
                        @@ ("sales_data_zero_quantity.txt" :> done.removed))

RunRemoveNegativePrice ==
    /\ "sales_data_final.txt" \in DOMAIN files
    /\ LET done == remove_negative_price(files["sales_data_final.txt"])
       IN  /\ "output" \in DOMAIN done
           /\ RunScript(("sales_data_validated.txt" :> done.output)
                        @@ ("sales_data_negative_price.txt" :> done.removed))

RunRemoveInvalidTransactionid ==
    /\ "sales_data_validated.txt" \in DOMAIN files
    /\ LET done == remove_invalid_transactionid(files["sales_data_validated.txt"])
       IN  /\ "output" \in DOMAIN done
           /\ RunScript(("sales_data_cleaned_final.txt" :> done.output)
                        @@ ("sales_data_invalid_transactionid.txt" :> done.removed))

NextClean ==
    \/ RunRemoveIncompleteRows
    \/ RunRemoveZeroQuantity
    \/ RunRemoveNegativePrice
    \/ RunRemoveInvalidTransactionid

SpecClean == InitClean /\ [][NextClean]_vars

(***************************************************************************)
(* Claims about the cleaning scripts                                       *)
(***************************************************************************)
C24_Final == files["sales_data_cleaned_final.txt"]

C24_Original == files["sales_data_pipe_delimited.txt"]

\* C24: once the four scripts have run in the order of their file paths,
\* every data row of sales_data_cleaned_final.txt has at least 8 fields,
\* a non-empty CustomerID and Region, an integer Quantity > 0, a
\* UnitPrice > 0 and a TransactionID starting with 'T', and the rows keep
\* their relative order from the original input.
C24_CleanedRows ==
    "sales_data_cleaned_final.txt" \in DOMAIN files =>
        /\ \A i \in 2..Len(C24_Final) :
              LET row == Split(C24_Final[i], "|") IN
              /\ Len(row) >= 8
              /\ Strip(row[7]) # <<>>
              /\ Strip(row[8]) # <<>>
              /\ IsInt(row[5])
              /\ IntValue(row[5]) > 0
              /\ IsFloat(RemoveCommas(row[6]))
              /\ FloatValue(RemoveCommas(row[6])).m > 0
              /\ StartsWith(Strip(row[1]), "T")
        /\ IsSubSeq(Tail(C24_Final), Tail(C24_Original))

\* one of two data rows was removed on the way, the padded one was kept
C24_Witness ==
    /\ "sales_data_cleaned_final.txt" \in DOMAIN files
    /\ Len(C24_Original) = 3
    /\ Len(C24_Final) = 2
    /\ C24_Final[2] # Strip(C24_Final[2])
    /\ Len(files["sales_data_zero_quantity.txt"]) = 2

====
